---- MODULE Spec2Model ----
(***************************************************************************)
(* Model of interactive_converter.py: the file matcher                     *)
(* (AnnotationConverter.match_files), the five per-format parsers, the     *)
(* annotation store built by convert_to_coco, the small-box quality filter *)
(* and the control flow of ImageCropper.crop_images.                       *)
(*                                                                         *)
(* File names are records [base, ext] (os.path.splitext of the name).      *)
(* Numbers read from text or JSON that the code truncates with int() are   *)
(* kept in tenths (VOC, COCO, LabelMe) or thousandths (YOLO), so that the  *)
(* truncation is computed and not assumed.                                 *)
(***************************************************************************)
EXTENDS Integers, Sequences, FiniteSets, TLC

VARIABLES
    pathway,                 \* "match" | "convert" | "crop": the entry point under analysis
    pc,                      \* position inside the entry point
    format_type,             \* argument format_type
    image_dir,               \* os.listdir(image_path), in listing order
    annotation_dir,          \* os.listdir(annotation_path) with each file's content
    class_mapping,           \* argument class_mapping (a function on a set of class ids)
    matched_pairs,           \* results of match_files
    unmatched_annotations,
    unmatched_images,
    match_raised,            \* match_files left by an uncaught exception
    images,                  \* AnnotationConverter fields
    categories,
    annotations,
    cat2id,
    img_count,
    cat_count,
    ann_count,
    pair_idx,                \* index of the next matched pair to process
    failed_pairs,            \* pairs whose processing raised into the caller's except
    include_unmatched_images,
    area_threshold,
    pre_images,              \* history: the store as it entered the quality filter
    pre_annotations,
    writes,                  \* number of times the output document was written
    crop_count,              \* ImageCropper.crop_count
    ret,                     \* return value of the entry point: "none" | "True" | "False"
    call_args,               \* arguments of the function called on its own
    call_result              \* what that call returned

vars == <<pathway, pc, format_type, image_dir, annotation_dir, class_mapping,
          matched_pairs, unmatched_annotations, unmatched_images, match_raised,
          images, categories, annotations, cat2id, img_count, cat_count, ann_count,
          pair_idx, failed_pairs, include_unmatched_images, area_threshold,
          pre_images, pre_annotations, writes, crop_count, ret, call_args, call_result>>

callVars == <<call_args, call_result>>
matchVars == <<matched_pairs, unmatched_annotations, unmatched_images, match_raised>>
storeVars == <<images, categories, annotations, cat2id, img_count, cat_count, ann_count>>
inputVars == <<pathway, format_type, image_dir, annotation_dir, class_mapping>>

(***************************************************************************)
(* Bounds of the analysis.                                                 *)
(***************************************************************************)
MaxImageFiles == 2     \* files listed in the image directory (matcher analysis)
MaxAnnFiles == 2       \* files listed in the annotation directory (matcher analysis)
MaxEntries == 2        \* lines / objects / shapes read from one annotation file
MaxAnns == 3           \* cap on ann_count while pairs are processed
MaxChildren == 2       \* children of one node of an hk tag tree
MaxDetectFiles == 6    \* files listed in a directory given to detect_format
SampleLimit == 5       \* files[:5]
MaxPolyLines == 3      \* lines of one polygon file
MaxFilterImages == 3   \* images of a store given to the quality filter
MaxFilterAnns == 2     \* annotations of one image of such a store
MaxConversions == 2    \* documents written by one AnnotationConverter
MaxSegFiles == 2       \* files listed in each directory of the segmentation pathway
max_cls == 254         \* _txt_to_mask(..., max_cls=254)

(***************************************************************************)
(* Sequence helpers.                                                       *)
(***************************************************************************)
Range(s) == {s[i] : i \in 1..Len(s)}

Contains(s, x) == \E i \in 1..Len(s) : s[i] = x

\* list.remove(x): drops the first occurrence (the caller checks membership)
RemoveFirst(s, x) ==
    LET i == CHOOSE k \in 1..Len(s) : s[k] = x /\ \A j \in 1..(k - 1) : s[j] # x
    IN  SubSeq(s, 1, i - 1) \o SubSeq(s, i + 1, Len(s))

SeqsUpTo(S, n) == UNION {[1..k -> S] : k \in 0..n}

NoDup(s) == \A i, j \in 1..Len(s) : i # j => s[i] # s[j]

\* int(): truncation toward zero of the rational a / b (b > 0)
TruncDiv(a, b) == IF a >= 0 THEN a \div b ELSE -((-a) \div b)

Min(a, b) == IF a <= b THEN a ELSE b
Max(a, b) == IF a >= b THEN a ELSE b

\* the least and the greatest k-th coordinate of a non-empty sequence of points
Min2(pts, k) == CHOOSE m \in {pts[i][k] : i \in 1..Len(pts)} : \A i \in 1..Len(pts) : m <= pts[i][k]
Max2(pts, k) == CHOOSE m \in {pts[i][k] : i \in 1..Len(pts)} : \A i \in 1..Len(pts) : m >= pts[i][k]

(***************************************************************************)
(* File names.                                                             *)
(***************************************************************************)
FileName(b, e) == [base |-> b, ext |-> e]

\* str.lower() on the strings that occur in the analysed directories
Lower(s) ==
    CASE s = "A" -> "a"
      [] s = "B" -> "b"
      [] s = ".JPG" -> ".jpg"
      [] s = ".PNG" -> ".png"
      [] s = ".TXT" -> ".txt"
      [] OTHER -> s

ImageExts == <<".jpg", ".jpeg", ".png", ".bmp">>

\* f.lower().endswith(('.jpg', '.jpeg', '.png', '.bmp'))
IsImageFile(f) == Lower(f.ext) \in Range(ImageExts)

Formats == {"yolo", "voc", "coco_single", "labelme", "hk"}

ClassesTxt == FileName("classes", ".txt")

\* the per-format filter of the annotation directory (case-sensitive endswith)
IsAnnotationFile(fmt, f) ==
    CASE fmt = "yolo" -> f.ext = ".txt" /\ f # ClassesTxt
      [] fmt = "voc" -> f.ext = ".xml"
      [] OTHER -> f.ext = ".json"

\* image_files: the image candidates, in listing order
ImageFiles(dir) == SelectSeq(dir, IsImageFile)

\* annotation_files: the annotation candidates, in listing order
AnnotationFiles(fmt, dir) == SelectSeq(dir, LAMBDA a : IsAnnotationFile(fmt, a.name))

(***************************************************************************)
(* match_files: name resolution.  A lookup yields [found, name].           *)
(***************************************************************************)
NotFound == [found |-> FALSE, name |-> FileName("", "")]
Found(n) == [found |-> TRUE, name |-> n]

\* for ext in ['.jpg', '.jpeg', '.png', '.bmp']: first base_name + ext in image_files
FirstByExt(base, image_files) ==
    LET hits == {k \in 1..Len(ImageExts) : Contains(image_files, FileName(base, ImageExts[k]))}
    IN  IF hits = {} THEN NotFound
        ELSE Found(FileName(base, ImageExts[CHOOSE k \in hits : \A j \in hits : k <= j]))

\* for img_file in image_files: first with splitext(img_file)[0].lower() == base.lower()
FirstByLowerBase(base, image_files) ==
    LET hits == {k \in 1..Len(image_files) : Lower(image_files[k].base) = Lower(base)}
    IN  IF hits = {} THEN NotFound
        ELSE Found(image_files[CHOOSE k \in hits : \A j \in hits : k <= j])

\* The image reference stored in a JSON annotation file (image.file_name, imagePath
\* or imgName): kind "absent" (no key), "empty" ('' value) or "path" (dir + name).
NoRef == [kind |-> "absent", dir |-> "", name |-> FileName("", "")]
EmptyRef == [kind |-> "empty", dir |-> "", name |-> FileName("", "")]
PathRef(d, n) == [kind |-> "path", dir |-> d, name |-> n]

\* coco_single: data['image']['file_name'] used as it is, else the base-name loop
ResolveCocoSingle(ann, image_files) ==
    CASE ann.ref.kind = "path" ->
            IF ann.ref.dir = "" /\ Contains(image_files, ann.ref.name)
            THEN Found(ann.ref.name) ELSE NotFound
      [] ann.ref.kind = "empty" -> NotFound
      [] OTHER -> FirstByExt(ann.name.base, image_files)

\* labelme / hk: basename of imagePath / imgName, exact, then case-insensitive base
\* name, then the annotation file's own base name
ResolveByReference(ann, image_files) ==
    LET fromRef ==
            IF ann.ref.kind = "path"
            THEN IF Contains(image_files, ann.ref.name)
                 THEN Found(ann.ref.name)
                 ELSE FirstByLowerBase(ann.ref.name.base, image_files)
            ELSE NotFound
    IN  IF fromRef.found THEN fromRef
        ELSE FirstByLowerBase(ann.name.base, image_files)

Pair(a, i) == [ann |-> a, img |-> i]

\* matched_pairs.append(...); unmatched_images.remove(...) inside try/except:
\* the append has happened when remove raises ValueError, and the handler then
\* appends the file to unmatched_annotations as well
MatchGuarded(acc, ann, img) ==
    IF Contains(acc.ui, img)
    THEN [acc EXCEPT !.mp = Append(@, Pair(ann.name, img)), !.ui = RemoveFirst(@, img)]
    ELSE [acc EXCEPT !.mp = Append(@, Pair(ann.name, img)), !.ua = Append(@, ann.name)]

\* the same two statements outside any try (yolo / voc): ValueError leaves match_files
MatchUnguarded(acc, ann, img) ==
    IF Contains(acc.ui, img)
    THEN [acc EXCEPT !.mp = Append(@, Pair(ann.name, img)), !.ui = RemoveFirst(@, img)]
    ELSE [acc EXCEPT !.mp = Append(@, Pair(ann.name, img)), !.raised = TRUE]

Unmatched(acc, ann) == [acc EXCEPT !.ua = Append(@, ann.name)]

\* one iteration of `for ann_file in annotation_files`
MatchOne(fmt, image_files, acc, ann) ==
    IF fmt \in {"yolo", "voc"}
    THEN LET r == FirstByExt(ann.name.base, image_files)
         IN  IF r.found THEN MatchUnguarded(acc, ann, r.name) ELSE Unmatched(acc, ann)
    ELSE IF ~ann.valid
         THEN Unmatched(acc, ann)             \* json.load or the lookup raised
         ELSE LET r == IF fmt = "coco_single"
                       THEN ResolveCocoSingle(ann, image_files)
                       ELSE ResolveByReference(ann, image_files)
              IN  IF r.found /\ Contains(image_files, r.name)
                  THEN MatchGuarded(acc, ann, r.name)
                  ELSE Unmatched(acc, ann)

RECURSIVE MatchLoop(_, _, _, _)
MatchLoop(fmt, image_files, acc, anns) ==
    IF anns = <<>> \/ acc.raised THEN acc
    ELSE MatchLoop(fmt, image_files, MatchOne(fmt, image_files, acc, Head(anns)), Tail(anns))

\* match_files(annotation_path, image_path, format_type)
match_files(adir, idir, fmt) ==
    MatchLoop(fmt, ImageFiles(idir),
              [mp |-> <<>>, ua |-> <<>>, ui |-> ImageFiles(idir), raised |-> FALSE],
              AnnotationFiles(fmt, adir))

(***************************************************************************)
(* The per-format parsers.  Each entry of a file (a line, an object, an    *)
(* annotation, a shape, a list item) parses to [ok, category, bbox] with   *)
(* bbox = <<x, y, w, h>>; ok = FALSE is an entry the parser skips.         *)
(***************************************************************************)
Skipped == [ok |-> FALSE, category |-> "", bbox |-> <<0, 0, 0, 0>>]
Parsed(name, b) == [ok |-> TRUE, category |-> name, bbox |-> b]

\* f"class_{class_id}"
ClassName(id) == "class_" \o ToString(id)

NoMapping == [k \in {} |-> ""]

\* a conversion that takes the centre itself as the top-left corner
ParseYoloLineCentre(line, img_w, img_h, mapping) ==
    IF line.ntok # 5 THEN Skipped
    ELSE IF ~line.cls.ok \/ \E k \in 1..4 : ~line.nums[k].ok THEN Skipped
    ELSE Parsed(IF mapping # NoMapping /\ line.cls.v \in DOMAIN mapping
                THEN mapping[line.cls.v] ELSE ClassName(line.cls.v),
                <<TruncDiv(line.nums[1].v * img_w, 1000), TruncDiv(line.nums[2].v * img_h, 1000),
                  TruncDiv(line.nums[3].v * img_w, 1000), TruncDiv(line.nums[4].v * img_h, 1000)>>)

\* A YOLO line: ntok tokens; cls = [ok, v] (ok: int() accepts the token), nums =
\* four tokens [ok, v] (ok: float() accepts the token; v in thousandths).
ParseYoloLine(line, img_w, img_h, mapping) ==
    IF line.ntok # 5 THEN Skipped
    ELSE IF ~line.cls.ok \/ \E k \in 1..4 : ~line.nums[k].ok THEN Skipped   \* ValueError
    ELSE LET xc == line.nums[1].v
             yc == line.nums[2].v
             w  == line.nums[3].v
             h  == line.nums[4].v
             \* int(x_center*img_w - (w*img_w)/2), the operands being v/1000
             x  == TruncDiv(2 * xc * img_w - w * img_w, 2000)
             y  == TruncDiv(2 * yc * img_h - h * img_h, 2000)
             bw == TruncDiv(w * img_w, 1000)
             bh == TruncDiv(h * img_h, 1000)
             name == IF mapping # NoMapping /\ line.cls.v \in DOMAIN mapping
                     THEN mapping[line.cls.v] ELSE ClassName(line.cls.v)
         IN  Parsed(name, <<x, y, bw, bh>>)

\* A VOC <object>: wellformed = FALSE when a tag is missing or a number does not
\* parse (the per-object except); coordinates in tenths, int(float(text)).
ParseVocObject(obj) ==
    IF ~obj.wellformed THEN Skipped
    ELSE LET xmin == TruncDiv(obj.xmin, 10)
             ymin == TruncDiv(obj.ymin, 10)
             xmax == TruncDiv(obj.xmax, 10)
             ymax == TruncDiv(obj.ymax, 10)
         IN  Parsed(obj.name, <<xmin, ymin, xmax - xmin, ymax - ymin>>)

\* A single-image COCO annotation: category_name ("" when missing or empty),
\* category_id (has_id = FALSE: the default 0), bbox a list of numbers in tenths
\* (numeric = FALSE: int() raises on an element).
ParseCocoAnnotation(ann) ==
    LET name == IF ann.category_name # "" THEN ann.category_name
                ELSE ClassName(IF ann.has_id THEN ann.category_id ELSE 0)
    IN  IF Len(ann.bbox) # 4 THEN Skipped
        ELSE IF ~ann.numeric THEN Skipped
        ELSE Parsed(name, [k \in 1..4 |-> TruncDiv(ann.bbox[k], 10)])

\* the first point taken as the top-left corner whatever the order
CornerBoxAsGiven(x1, y1, x2, y2) == <<x1, y1, x2 - x1, y2 - y1>>

\* min/max normalisation of two corner points
CornerBox(x1, y1, x2, y2) ==
    <<Min(x1, x2), Min(y1, y2), Max(x1, x2) - Min(x1, x2), Max(y1, y2) - Min(y1, y2)>>

\* A LabelMe shape: label ("" when missing), points a list of lists of numbers in
\* tenths; `x1, y1 = map(int, points[0])` raises unless the point has two numbers.
ParseLabelmeShape(shape) ==
    IF shape.label = "" THEN Skipped
    ELSE IF Len(shape.points) # 2 THEN Skipped
    ELSE IF Len(shape.points[1]) # 2 \/ Len(shape.points[2]) # 2 THEN Skipped
    ELSE Parsed(shape.label,
                CornerBox(TruncDiv(shape.points[1][1], 10), TruncDiv(shape.points[1][2], 10),
                          TruncDiv(shape.points[2][1], 10), TruncDiv(shape.points[2][2], 10)))

\* a descent that only ever enters the first child
RECURSIVE FirstChildTag(_)
FirstChildTag(item) ==
    IF item.children = <<>> THEN item.tagName
    ELSE LET tag == FirstChildTag(item.children[1])
         IN  IF tag # "" THEN tag ELSE item.tagName

\* find_deepest_tag: the tag of a node {tagName, children}
RECURSIVE find_deepest_tag(_)
find_deepest_tag(item) ==
    IF item.children = <<>> THEN item.tagName
    ELSE LET tags == [k \in 1..Len(item.children) |-> find_deepest_tag(item.children[k])]
             deepest_tags == SelectSeq(tags, LAMBDA t : t # "")
         IN  IF deepest_tags # <<>> THEN deepest_tags[1] ELSE item.tagName

\* find_deepest_tag of _get_deepest_category_name_for_cropper
RECURSIVE find_deepest_tag_for_cropper(_)
find_deepest_tag_for_cropper(item) ==
    IF item.children = <<>> THEN item.tagName
    ELSE LET tags == [k \in 1..Len(item.children) |->
                          find_deepest_tag_for_cropper(item.children[k])]
             deepest_tags == SelectSeq(tags, LAMBDA t : t # "")
         IN  IF deepest_tags # <<>> THEN deepest_tags[1] ELSE item.tagName

\* An hk list item: node (the item as a tag tree), tagInfo = [kind, coord] with kind
\* "empty" (missing or ''), "badjson", "notlist" (decodes to no non-empty list) or
\* "list"; coord the first element's coord list of points [haskeys, x, y].
ParseHkItem(item) ==
    LET category_name == find_deepest_tag(item.node)
        c == item.tagInfo.coord
    IN  IF category_name = "" THEN Skipped
        ELSE IF item.tagInfo.kind # "list" THEN Skipped
        ELSE IF Len(c) # 2 THEN Skipped
        ELSE IF ~c[1].haskeys \/ ~c[2].haskeys THEN Skipped          \* KeyError
        ELSE Parsed(category_name, CornerBox(c[1].x, c[1].y, c[2].x, c[2].y))

\* the records one file yields, in file order (skipped entries included as ok = FALSE)
ParseEntry(fmt, e, img_w, img_h, mapping) ==
    CASE fmt = "yolo" -> ParseYoloLine(e, img_w, img_h, mapping)
      [] fmt = "voc" -> ParseVocObject(e)
      [] fmt = "coco_single" -> ParseCocoAnnotation(e)
      [] fmt = "labelme" -> ParseLabelmeShape(e)
      [] OTHER -> ParseHkItem(e)

(***************************************************************************)
(* The annotation store.                                                   *)
(***************************************************************************)
EmptyStore ==
    [images |-> <<>>, categories |-> <<>>, annotations |-> <<>>,
     cat2id |-> [n \in {} |-> 0], img_count |-> 0, cat_count |-> 0, ann_count |-> 0]

Store ==
    [images |-> images, categories |-> categories, annotations |-> annotations,
     cat2id |-> cat2id, img_count |-> img_count, cat_count |-> cat_count,
     ann_count |-> ann_count]

\* a reset that leaves every field as the last conversion left it
Unreset == Store

\* reset()
reset == EmptyStore

MapPut(m, k, v) == [x \in DOMAIN m \cup {k} |-> IF x = k THEN v ELSE m[x]]

\* the unconditional registration, as a missing membership test would leave it
RegisterAlways(st, name) ==
    [st EXCEPT !.cat2id = MapPut(@, name, st.cat_count),
               !.categories = Append(@, [id |-> st.cat_count, name |-> name]),
               !.cat_count = @ + 1]

\* if category_name not in self.cat2id: register it
RegisterCategory(st, name) ==
    IF name \in DOMAIN st.cat2id THEN st
    ELSE [st EXCEPT !.cat2id = MapPut(@, name, st.cat_count),
                    !.categories = Append(@, [id |-> st.cat_count, name |-> name]),
                    !.cat_count = @ + 1]

\* self.annotations.append({...}); self.ann_count += 1
AppendAnnotation(st, img_id, name, b) ==
    [st EXCEPT !.annotations = Append(@, [id |-> st.ann_count, image_id |-> img_id,
                                          category_id |-> st.cat2id[name],
                                          bbox |-> b, area |-> b[3] * b[4]]),
               !.ann_count = @ + 1]

\* category names that are JSON arrays or objects rather than strings
Unhashable(name) == name \in {"[cat]"}

\* one parsed entry added to the store; `category_name not in self.cat2id` raises
\* TypeError on an unhashable name, and the per-entry except skips the entry
AddRecord(st, img_id, rec) ==
    IF rec.ok /\ ~Unhashable(rec.category) THEN AppendAnnotation(RegisterCategory(st, rec.category), img_id,
                                    rec.category, rec.bbox)
    ELSE st

\* _process_<format>_file: the loop over the entries of one readable file
RECURSIVE ProcessEntries(_, _, _, _, _, _, _)
ProcessEntries(st, fmt, entries, img_id, img_w, img_h, mapping) ==
    IF entries = <<>> THEN st
    ELSE ProcessEntries(AddRecord(st, img_id, ParseEntry(fmt, Head(entries), img_w, img_h, mapping)),
                        fmt, Tail(entries), img_id, img_w, img_h, mapping)

\* an append that leaves img_count as it was
AppendImageSameCount(st, file_name, img_w, img_h) ==
    [st EXCEPT !.images = Append(@, [file_name |-> file_name, id |-> st.img_count,
                                     width |-> img_w, height |-> img_h])]

\* self.images.append({...}); self.img_count += 1
AppendImage(st, file_name, img_w, img_h) ==
    [st EXCEPT !.images = Append(@, [file_name |-> file_name, id |-> st.img_count,
                                     width |-> img_w, height |-> img_h]),
               !.img_count = @ + 1]

\* _process_file_pair for an image that opens: [st, raised].  A file that cannot be
\* read or decoded raises out of _process_yolo_file (the image row stays); the
\* other four parsers catch it and add nothing.
process_file_pair(st, fmt, pair, img, file, mapping) ==
    LET st1 == AppendImage(st, pair.img, img.w, img.h)
        current_img_id == st.img_count
    IN  IF ~file.readable
        THEN [st |-> st1, raised |-> (fmt = "yolo")]
        ELSE [st |-> ProcessEntries(st1, fmt, file.entries, current_img_id, img.w, img.h, mapping),
              raised |-> FALSE]

(***************************************************************************)
(* The quality filter.                                                     *)
(***************************************************************************)
\* the comparison with the boundary included, as an off-by-one would leave it
IsSmallBoxInclusive(ann, threshold) == ann.bbox[3] * ann.bbox[4] <= threshold

\* area = bbox[2] * bbox[3]; if area < area_threshold
IsSmallBox(ann, threshold) == ann.bbox[3] * ann.bbox[4] < threshold

\* a scan that stops at the first small box
FirstSmallBox(anns, threshold) ==
    LET s == SelectSeq(anns, LAMBDA a : IsSmallBox(a, threshold))
    IN  IF s = <<>> THEN s ELSE <<s[1]>>

SmallBoxes(anns, threshold) == SelectSeq(anns, LAMBDA a : IsSmallBox(a, threshold))

\* a renumbering whose map sends every surviving image to the first new id
RECURSIVE RenumberImagesToFirst(_, _, _)
RenumberImagesToFirst(imgs, counted, acc) ==
    IF imgs = <<>> THEN acc
    ELSE IF Head(imgs).id \in counted
         THEN RenumberImagesToFirst(Tail(imgs), counted,
                  [valid_images |-> Append(acc.valid_images,
                                           [Head(imgs) EXCEPT !.id = Len(acc.valid_images) + 1]),
                   image_id_map |-> MapPut(acc.image_id_map, Head(imgs).id, 1)])
         ELSE RenumberImagesToFirst(Tail(imgs), counted, acc)

\* valid_images and image_id_map, built in one pass over self.images
RECURSIVE RenumberImages(_, _, _)
RenumberImages(imgs, counted, acc) ==
    IF imgs = <<>> THEN acc
    ELSE LET img == Head(imgs)
             new_id == Len(acc.valid_images) + 1
         IN  IF img.id \in counted
             THEN RenumberImages(Tail(imgs), counted,
                                 [valid_images |-> Append(acc.valid_images, [img EXCEPT !.id = new_id]),
                                  image_id_map |-> MapPut(acc.image_id_map, img.id, new_id)])
             ELSE RenumberImages(Tail(imgs), counted, acc)

\* the annotation kept with a new id but its old image_id
RewriteIdOnly(ann, image_id_map, new_id) == [ann EXCEPT !.id = new_id]

\* ann['image_id'] = image_id_map[ann['image_id']]; ann['id'] = len(updated) + 1
RewriteAnnotation(ann, image_id_map, new_id) ==
    [ann EXCEPT !.image_id = image_id_map[ann.image_id], !.id = new_id]

RECURSIVE RenumberAnnotations(_, _, _)
RenumberAnnotations(anns, image_id_map, updated) ==
    IF anns = <<>> THEN updated
    ELSE IF Head(anns).image_id \in DOMAIN image_id_map
         THEN RenumberAnnotations(Tail(anns), image_id_map,
                  Append(updated, RewriteAnnotation(Head(anns), image_id_map, Len(updated) + 1)))
         ELSE RenumberAnnotations(Tail(anns), image_id_map, updated)

\* a removal that also drops the categories left without an annotation
remove_and_prune(st, small_boxes) ==
    LET remove_ann_ids == {small_boxes[i].id : i \in 1..Len(small_boxes)}
        valid_annotations == SelectSeq(st.annotations, LAMBDA a : a.id \notin remove_ann_ids)
        image_ann_count == {valid_annotations[i].image_id : i \in 1..Len(valid_annotations)}
        r == RenumberImages(st.images, image_ann_count,
                            [valid_images |-> <<>>, image_id_map |-> [k \in {} |-> 0]])
        used == {valid_annotations[i].category_id : i \in 1..Len(valid_annotations)}
    IN  [st EXCEPT !.images = r.valid_images,
                   !.annotations = RenumberAnnotations(valid_annotations, r.image_id_map, <<>>),
                   !.categories = SelectSeq(@, LAMBDA c : c.id \in used)]

\* _remove_small_boxes(small_boxes, area_threshold)
remove_small_boxes(st, small_boxes) ==
    LET remove_ann_ids == {small_boxes[i].id : i \in 1..Len(small_boxes)}
        valid_annotations == SelectSeq(st.annotations, LAMBDA a : a.id \notin remove_ann_ids)
        image_ann_count == {valid_annotations[i].image_id : i \in 1..Len(valid_annotations)}
        r == RenumberImages(st.images, image_ann_count,
                            [valid_images |-> <<>>, image_id_map |-> [k \in {} |-> 0]])
    IN  [st EXCEPT !.images = r.valid_images,
                   !.annotations = RenumberAnnotations(valid_annotations, r.image_id_map, <<>>)]

\* _check_and_filter_small_boxes(area_threshold)
check_and_filter_small_boxes(st, threshold) ==
    IF st.annotations = <<>> THEN st
    ELSE IF SmallBoxes(st.annotations, threshold) = <<>> THEN st
    ELSE remove_small_boxes(st, SmallBoxes(st.annotations, threshold))

(***************************************************************************)
(* ImageCropper: _apply_expansion_and_bounds.  expansion_ratio is kept in   *)
(* tenths.                                                                 *)
(***************************************************************************)
\* a scaling that leaves the size as it is
Unscaled(size, ratio) == size

\* int(w * expansion_ratio)
Scaled(size, ratio) == TruncDiv(size * ratio, 10)

\* if new_x < 0: new_x = 0
Pin(v) == IF v < 0 THEN 0 ELSE v

\* a bounds test that never shrinks
FitUnchecked(origin, size, limit) == size

\* if new_x + new_w > img_w: new_w = img_w - new_x
Fit(origin, size, limit) == IF origin + size > limit THEN limit - origin ELSE size

apply_expansion_and_bounds(bbox, img_w, img_h, expansion_ratio) ==
    LET x == bbox[1]
        y == bbox[2]
        w == bbox[3]
        h == bbox[4]
        new_w == Scaled(w, expansion_ratio)
        new_h == Scaled(h, expansion_ratio)
        center_x == x + (w \div 2)
        center_y == y + (h \div 2)
        new_x == Pin(center_x - (new_w \div 2))
        new_y == Pin(center_y - (new_h \div 2))
    IN  IF expansion_ratio = 10 THEN <<x, y, w, h>>
        ELSE <<new_x, new_y, Fit(new_x, new_w, img_w), Fit(new_y, new_h, img_h)>>

(***************************************************************************)
(* FormatDetector: detect_format.  A directory is [exists, files], files    *)
(* the listing in os.listdir order, each file [name, content].             *)
(***************************************************************************)
\* filename.startswith('.') on the names that occur in the analysed directories
StartsWithDot(name) == name.base \in {".a"}

\* the first line of a .txt file: [readable, ntok, floats] (floats: float() accepts
\* every token)
ScoresYolo(c) == c.readable /\ c.ntok = 5 /\ c.floats

\* an .xml file: [parses, annotation, object, bndbox] (the tags found)
ScoresVoc(c) == c.parses /\ c.annotation /\ c.object /\ c.bndbox

\* a .json file: [parses, shapes, imagePath, imgName, list, annotations]; shapes and
\* annotations are "absent" | "list" | "other", list is "absent" | "other" | "empty" |
\* "plain" (a list, no item with tagInfo and tagName) | "tagged" (some item has both)
\* | "raises" (a list with an item on which the `in` test raises)
ScoreJson(c) ==
    IF ~c.parses THEN "None"
    ELSE IF c.shapes = "list" /\ c.imagePath THEN "labelme"
    ELSE IF c.imgName /\ c.list \in {"empty", "plain", "tagged", "raises"}
         THEN (IF c.list = "tagged" THEN "hk" ELSE "None")
    ELSE IF c.annotations = "list" THEN "coco_single"
    ELSE "None"

\* what one sampled file scores
FileScore(f) ==
    IF f.name.ext = ".txt" /\ f.name # ClassesTxt
    THEN (IF ScoresYolo(f.content) THEN "yolo" ELSE "None")
    ELSE IF f.name.ext = ".xml" THEN (IF ScoresVoc(f.content) THEN "voc" ELSE "None")
    ELSE IF f.name.ext = ".json" THEN ScoreJson(f.content)
    ELSE "None"

\* sample_files = [f for f in files[:5] if not f.startswith('.')]
sample_files(files) ==
    SelectSeq(SubSeq(files, 1, Min(SampleLimit, Len(files))),
              LAMBDA f : ~StartsWithDot(f.name))

format_scores(files) ==
    [fmt \in Formats |->
        Cardinality({i \in 1..Len(sample_files(files)) : FileScore(sample_files(files)[i]) = fmt})]

\* sum(1 for f in files if f.endswith(ext))
CountExt(files, ext) == Cardinality({i \in 1..Len(files) : files[i].name.ext = ext})

txt_count(files) ==
    Cardinality({i \in 1..Len(files) : files[i].name.ext = ".txt" /\ files[i].name # ClassesTxt})
xml_count(files) == CountExt(files, ".xml")
json_count(files) == CountExt(files, ".json")
has_classes_txt(files) == \E i \in 1..Len(files) : files[i].name = ClassesTxt

\* a resolution that asks for yolo before the JSON formats
ResolveYoloFirst(scores, txt, xml, json, classes) ==
    IF scores["yolo"] > 0 \/ (classes /\ txt > 0) THEN "yolo"
    ELSE IF scores["labelme"] > 0 THEN "labelme"
    ELSE IF scores["hk"] > 0 THEN "hk"
    ELSE IF scores["voc"] > 0 /\ xml > 0 THEN "voc"
    ELSE IF scores["coco_single"] > 0 /\ json > 0 THEN "coco_single"
    ELSE "None"

\* the if/elif chain over format_scores and the counts
Resolve(scores, txt, xml, json, classes) ==
    IF scores["labelme"] > 0 THEN "labelme"
    ELSE IF scores["hk"] > 0 THEN "hk"
    ELSE IF scores["yolo"] > 0 \/ (classes /\ txt > 0) THEN "yolo"
    ELSE IF scores["voc"] > 0 /\ xml > 0 THEN "voc"
    ELSE IF scores["coco_single"] > 0 /\ json > 0 THEN "coco_single"
    ELSE "None"

detect_format(dir) ==
    IF ~dir.exists THEN "None"
    ELSE IF dir.files = <<>> THEN "None"
    ELSE Resolve(format_scores(dir.files), txt_count(dir.files), xml_count(dir.files),
                 json_count(dir.files), has_classes_txt(dir.files))

(***************************************************************************)
(* PolygonRasterizer: _parse_polygon_line and _txt_to_mask.  A line is the  *)
(* sequence of its tokens; a token is [int, float]: int = [ok, v] is what   *)
(* int() makes of it, float = [ok, nan, v] what float() makes of it, v in   *)
(* thousandths.                                                            *)
(***************************************************************************)
\* round(n / d) for d > 0: to the nearest integer, a tie to the even one
Round(n, d) ==
    LET q == n \div d
        r == n - q * d
    IN  IF 2 * r < d THEN q
        ELSE IF 2 * r > d THEN q + 1
        ELSE IF q % 2 = 0 THEN q ELSE q + 1

\* min(max(v, 0), dim - 1)
Clamp(v, dim) == Min(Max(v, 0), dim - 1)

NoLine == [cls |-> 0, pts |-> <<>>, none |-> TRUE, raised |-> FALSE]

\* _parse_polygon_line(line, width, height): (None, None) as none = TRUE; a nan
\* coordinate makes int(round(...)) raise, outside the function's own try
parse_polygon_line(parts, width, height) ==
    IF Len(parts) < 7 \/ Len(parts) % 2 = 0 THEN NoLine
    ELSE IF ~parts[1].int.ok \/ \E k \in 2..Len(parts) : ~parts[k].float.ok THEN NoLine
    ELSE IF \E k \in 2..Len(parts) : parts[k].float.nan
         THEN [NoLine EXCEPT !.none = FALSE, !.raised = TRUE]
    ELSE [cls |-> parts[1].int.v,
          pts |-> [i \in 1..((Len(parts) - 1) \div 2) |->
                      <<Clamp(Round(parts[2 * i].float.v * width, 1000), width),
                        Clamp(Round(parts[2 * i + 1].float.v * height, 1000), height)>>],
          none |-> FALSE, raised |-> FALSE]

Pixels(width, height) == (0..(width - 1)) \X (0..(height - 1))

Cross(a, b, p) == (b[1] - a[1]) * (p[2] - a[2]) - (b[2] - a[2]) * (p[1] - a[1])

\* draw.polygon(polygon_coords, fill=...): the pixels the library paints, taken as
\* the pixels inside or on the outline of a convex polygon
Cover(pts) ==
    LET n == Len(pts)
        side(p) == [i \in 1..n |-> Cross(pts[i], pts[(i % n) + 1], p)]
    IN  {p \in ((Min2(pts, 1)..Max2(pts, 1)) \X (Min2(pts, 2)..Max2(pts, 2))) :
            \/ \A i \in 1..n : side(p)[i] >= 0
            \/ \A i \in 1..n : side(p)[i] <= 0}

\* a fill that leaves painted pixels alone
PaintUnder(mask, pts, gray) ==
    [p \in DOMAIN mask |-> IF p \in Cover(pts) /\ mask[p] = 0 THEN gray ELSE mask[p]]

\* draw.polygon(polygon_coords, fill=gray) on the mask
Paint(mask, pts, gray) ==
    [p \in DOMAIN mask |-> IF p \in Cover(pts) THEN gray ELSE mask[p]]

\* the loop `for line in f` of _txt_to_mask: [mask, raised]
RECURSIVE PaintLines(_, _, _, _)
PaintLines(mask, lines, width, height) ==
    IF lines = <<>> THEN [mask |-> mask, raised |-> FALSE]
    ELSE LET r == parse_polygon_line(Head(lines), width, height)
         IN  IF r.raised THEN [mask |-> mask, raised |-> TRUE]
             ELSE IF r.none THEN PaintLines(mask, Tail(lines), width, height)
             ELSE IF r.cls < 0 \/ r.cls > max_cls
                  THEN PaintLines(mask, Tail(lines), width, height)
             ELSE PaintLines(Paint(mask, r.pts, r.cls + 1), Tail(lines), width, height)

\* _txt_to_mask(txt_path, mask_path, width, height): [ok, mask]; ok is the return
\* value, mask the saved image (saved only when nothing raised)
txt_to_mask(file, width, height) ==
    LET blank == [p \in Pixels(width, height) |-> 0]
        r == PaintLines(blank, file.lines, width, height)
    IN  IF ~file.readable \/ r.raised THEN [ok |-> FALSE, mask |-> blank]
        ELSE [ok |-> TRUE, mask |-> r.mask]

(***************************************************************************)
(* Inputs of the analysis.                                                 *)
(***************************************************************************)
AnnExt(fmt) == CASE fmt = "yolo" -> ".txt" [] fmt = "voc" -> ".xml" [] OTHER -> ".json"

AnnFile(n, v, r) == [name |-> n, valid |-> v, ref |-> r]

\* names listed in the image directory: three image candidates and one other file
MatchImageNames ==
    {FileName("a", ".jpg"), FileName("a", ".png"), FileName("A", ".JPG"), FileName("n", ".txt")}

\* image references found in JSON annotation files
MatchRefs ==
    {NoRef, PathRef("", FileName("a", ".jpg")), PathRef("d/", FileName("a", ".png")),
     PathRef("", FileName("a", ".JPG"))}

\* files listed in the annotation directory; the content of a yolo or voc file
\* plays no part in matching
MatchAnnFiles(fmt) ==
    LET names == {FileName("a", AnnExt(fmt)), FileName("A", AnnExt(fmt)), ClassesTxt}
    IN  IF fmt \in {"yolo", "voc"}
        THEN {AnnFile(n, TRUE, NoRef) : n \in names}
        ELSE {AnnFile(n, TRUE, r) : n \in names, r \in MatchRefs}
             \cup {AnnFile(n, FALSE, NoRef) : n \in names}

ImageListings == {s \in SeqsUpTo(MatchImageNames, MaxImageFiles) : NoDup(s)}

AnnListings(fmt) ==
    {s \in SeqsUpTo(MatchAnnFiles(fmt), MaxAnnFiles) :
        \A i, j \in 1..Len(s) : i # j => s[i].name # s[j].name}

\* directories of the conversion and cropping analysis: [idir, adir]
SampleDirs(fmt) ==
    LET img(b, e) == FileName(b, e)
        ann(b) == AnnFile(FileName(b, AnnExt(fmt)), TRUE, NoRef)
        toA(b) == AnnFile(FileName(b, AnnExt(fmt)), TRUE, PathRef("", FileName("a", ".jpg")))
    IN  {[idir |-> <<img("a", ".jpg")>>, adir |-> <<>>],
         [idir |-> <<>>, adir |-> <<ann("a")>>],
         [idir |-> <<img("a", ".jpg"), img("b", ".png")>>, adir |-> <<ann("a")>>],
         [idir |-> <<img("a", ".jpg"), img("b", ".png"), img("c", ".bmp")>>,
          adir |-> <<ann("a"), ann("b")>>],
         [idir |-> <<img("a", ".jpg")>>, adir |-> <<toA("a"), toA("b")>>]}

\* directories of a further conversion: no image at all, or one pair and one
\* image without annotation
AgainDirs(fmt) == {d \in SampleDirs(fmt) : Len(d.adir) = 1}

\* Image.open(img_path): it raises, or gives the size
ImageOpens ==
    {[ok |-> FALSE, w |-> 0, h |-> 0], [ok |-> TRUE, w |-> 100, h |-> 200],
     [ok |-> TRUE, w |-> 64, h |-> 48]}

Tok(okv, v) == [ok |-> okv, v |-> v]
YoloLine(n, c, a, b, w, h) == [ntok |-> n, cls |-> c, nums |-> <<a, b, w, h>>]

YoloLines ==
    {YoloLine(5, Tok(TRUE, 0), Tok(TRUE, 500), Tok(TRUE, 500), Tok(TRUE, 200), Tok(TRUE, 400)),
     YoloLine(5, Tok(TRUE, 1), Tok(TRUE, 500), Tok(TRUE, 500), Tok(TRUE, 50), Tok(TRUE, 25)),
     YoloLine(5, Tok(TRUE, 0), Tok(TRUE, 100), Tok(TRUE, 100), Tok(TRUE, 40), Tok(TRUE, 20)),
     YoloLine(5, Tok(TRUE, 0), Tok(TRUE, 500), Tok(FALSE, 0), Tok(TRUE, 200), Tok(TRUE, 400)),
     YoloLine(5, Tok(TRUE, 1), Tok(TRUE, 500), Tok(TRUE, 500), Tok(TRUE, -200), Tok(TRUE, -400))}

VocObject(wf, n, x1, y1, x2, y2) ==
    [wellformed |-> wf, name |-> n, xmin |-> x1, ymin |-> y1, xmax |-> x2, ymax |-> y2]

VocObjects ==
    {VocObject(TRUE, "cat", 100, 100, 300, 500),
     VocObject(TRUE, "dog", 0, 0, 59, 50),
     VocObject(TRUE, "cat", 10, 10, 50, 50),
     VocObject(FALSE, "cat", 0, 0, 0, 0),
     VocObject(TRUE, "dog", 300, 500, 100, 100)}

CocoAnn(n, hid, cid, b, num) ==
    [category_name |-> n, has_id |-> hid, category_id |-> cid, bbox |-> b, numeric |-> num]

CocoAnns ==
    {CocoAnn("cat", FALSE, 0, <<100, 100, 200, 400>>, TRUE),
     CocoAnn("", TRUE, 1, <<0, 0, 55, 50>>, TRUE),
     CocoAnn("", FALSE, 0, <<10, 10, 40, 40>>, TRUE),
     CocoAnn("cat", FALSE, 0, <<10, 10, 40>>, TRUE),
     CocoAnn("cat", TRUE, 1, <<100, 100, -200, -400>>, TRUE)}

LabelmeShape(l, p) == [label |-> l, points |-> p]

LabelmeShapes ==
    {LabelmeShape("cat", <<<<100, 100>>, <<300, 500>>>>),
     LabelmeShape("dog", <<<<59, 50>>, <<0, 0>>>>),
     LabelmeShape("cat", <<<<10, 50>>, <<50, 10>>>>),
     LabelmeShape("", <<<<100, 100>>, <<300, 500>>>>),
     LabelmeShape("dog", <<<<100, 100>>, <<300, 500>>, <<100, 500>>>>)}

Node(t, ch) == [tagName |-> t, children |-> ch]
Pt(x, y) == [haskeys |-> TRUE, x |-> x, y |-> y]
HkItem(n, k, c) == [node |-> n, tagInfo |-> [kind |-> k, coord |-> c]]

HkItems ==
    {HkItem(Node("cat", <<>>), "list", <<Pt(5, 5), Pt(15, 25)>>),
     HkItem(Node("animal", <<Node("", <<>>), Node("dog", <<>>)>>), "list", <<Pt(5, 5), Pt(0, 0)>>),
     HkItem(Node("animal", <<Node("pet", <<Node("cat", <<>>)>>), Node("dog", <<>>)>>),
            "list", <<Pt(1, 5), Pt(5, 1)>>),
     HkItem(Node("cat", <<>>), "badjson", <<>>),
     HkItem(Node("", <<Node("", <<>>)>>), "list", <<Pt(5, 5), Pt(15, 25)>>)}

\* hk entry trees of three levels, the tags of each level told apart by name
TagLeaves == {Node(t, <<>>) : t \in {"", "leaf"}}

TagMids ==
    TagLeaves \cup {Node(t, ch) : t \in {"", "mid"},
                                  ch \in SeqsUpTo(TagLeaves, MaxChildren) \ {<<>>}}

TagTrees == {Node(t, ch) : t \in {"", "top"}, ch \in SeqsUpTo(TagMids, MaxChildren)}

TxtLine(r, n, fl) == [readable |-> r, ntok |-> n, floats |-> fl]
XmlDoc(p, a, o, b) == [parses |-> p, annotation |-> a, object |-> o, bndbox |-> b]
JsonDoc(p, sh, ip, im, li, an) ==
    [parses |-> p, shapes |-> sh, imagePath |-> ip, imgName |-> im, list |-> li,
     annotations |-> an]
DetectFile(n, c) == [name |-> n, content |-> c]

\* the files a directory given to detect_format may list
DetectFiles ==
    {DetectFile(FileName("a", ".txt"), TxtLine(TRUE, 5, TRUE)),
     DetectFile(FileName("b", ".txt"), TxtLine(TRUE, 3, TRUE)),
     DetectFile(ClassesTxt, TxtLine(TRUE, 1, FALSE)),
     DetectFile(FileName(".a", ".txt"), TxtLine(TRUE, 5, TRUE)),
     DetectFile(FileName("a", ".xml"), XmlDoc(TRUE, TRUE, TRUE, TRUE)),
     DetectFile(FileName("l", ".json"), JsonDoc(TRUE, "list", TRUE, FALSE, "absent", "absent")),
     DetectFile(FileName("h", ".json"), JsonDoc(TRUE, "absent", FALSE, TRUE, "tagged", "absent")),
     DetectFile(FileName("c", ".json"), JsonDoc(TRUE, "absent", FALSE, FALSE, "absent", "list"))}

\* the listings of at most n of the files S, no name listed twice
RECURSIVE Listings(_, _)
Listings(S, n) ==
    IF n = 0 THEN {<<>>}
    ELSE LET shorter == Listings(S, n - 1)
             longest == {s \in shorter : Len(s) = n - 1}
         IN  shorter \cup {Append(p[1], p[2]) :
                               p \in {q \in longest \X S :
                                         \A i \in 1..Len(q[1]) : q[1][i].name # q[2].name}}

\* a missing directory, and the listings of up to MaxDetectFiles files
DetectDirs ==
    {[exists |-> FALSE, files |-> <<>>]}
    \cup {[exists |-> TRUE, files |-> fs] : fs \in Listings(DetectFiles, MaxDetectFiles)}

\* tokens of a polygon line: "3", "0.25", "nan", "x"
IntTok(n) == [int |-> Tok(TRUE, n), float |-> [ok |-> TRUE, nan |-> FALSE, v |-> 1000 * n]]
DecTok(v) == [int |-> Tok(FALSE, 0), float |-> [ok |-> TRUE, nan |-> FALSE, v |-> v]]
NanTok == [int |-> Tok(FALSE, 0), float |-> [ok |-> TRUE, nan |-> TRUE, v |-> 0]]
BadTok == [int |-> Tok(FALSE, 0), float |-> [ok |-> FALSE, nan |-> FALSE, v |-> 0]]

PolyLine(cls, coords) == <<cls>> \o [i \in 1..Len(coords) |-> DecTok(coords[i])]

\* the lines a polygon file may hold
PolygonLines ==
    {PolyLine(IntTok(0), <<0, 0, 1000, 0, 0, 1000>>),
     PolyLine(IntTok(1), <<1000, 1000, 0, 1000, 1000, 0>>),
     PolyLine(IntTok(254), <<500, 500, 1200, 500, 500, 1200>>),
     PolyLine(IntTok(2), <<-100, 0, 375, 0, 375, 625, 0, 625>>),
     PolyLine(IntTok(255), <<0, 0, 1000, 0, 0, 1000>>),
     PolyLine(IntTok(-1), <<0, 0, 1000, 0, 0, 1000>>),
     PolyLine(DecTok(1000), <<0, 0, 1000, 0, 0, 1000>>),
     PolyLine(IntTok(0), <<0, 0, 1000, 0>>),
     PolyLine(IntTok(0), <<0, 0, 1000, 0, 0, 1000, 500>>),
     <<IntTok(0), DecTok(0), DecTok(0), BadTok, DecTok(0), DecTok(0), DecTok(1000)>>,
     <<IntTok(0), DecTok(0), DecTok(0), NanTok, DecTok(0), DecTok(0), DecTok(1000)>>,
     <<>>}

PolygonFiles ==
    {[readable |-> FALSE, lines |-> <<>>]}
    \cup {[readable |-> TRUE, lines |-> l] : l \in SeqsUpTo(PolygonLines, MaxPolyLines)}

\* (width, height) as _get_image_size returns them
MaskSizes == {<<4, 4>>, <<3, 2>>}

\* boxes handed to the cropper (the parsers also yield boxes outside the image and
\* boxes of negative size), image sizes, and ratios 0.5 .. 3.0 in tenths
ExpandBoxes == {-5, 0, 40, 95, 120} \X {-5, 0, 30, 190} \X {-20, 0, 7, 20, 80} \X {-20, 1, 30, 80}

ExpandSizes == {<<100, 200>>, <<64, 48>>}

ExpandRatios == {5, 10, 11, 15, 20, 30}

\* the JSON documents a sampled file may hold
JsonDocs ==
    {JsonDoc(p, sh, ip, im, li, an) :
        p \in BOOLEAN, sh \in {"absent", "list", "other"}, ip \in BOOLEAN, im \in BOOLEAN,
        li \in {"absent", "other", "empty", "plain", "tagged", "raises"},
        an \in {"absent", "list", "other"}}


\* stores given to the quality filter: built by _process_file_pair from up to
\* MaxFilterImages coco_single files of up to MaxFilterAnns annotations each, a
\* "cat" of area 24 or a "dog" of area 25
FilterAnns ==
    {CocoAnn("cat", FALSE, 0, <<0, 0, 40, 60>>, TRUE),
     CocoAnn("dog", FALSE, 0, <<10, 10, 50, 50>>, TRUE)}

FilterFiles == {[readable |-> TRUE, entries |-> e] : e \in SeqsUpTo(FilterAnns, MaxFilterAnns)}

ImageBase(k) == "img" \o ToString(k)

RECURSIVE StoreOf(_)
StoreOf(files) ==
    IF files = <<>> THEN reset
    ELSE LET n == Len(files)
         IN  process_file_pair(StoreOf(SubSeq(files, 1, n - 1)), "coco_single",
                               Pair(FileName(ImageBase(n), ".json"), FileName(ImageBase(n), ".jpg")),
                               [ok |-> TRUE, w |-> 100, h |-> 200], files[n], NoMapping).st

FilterStores == {StoreOf(files) : files \in SeqsUpTo(FilterFiles, MaxFilterImages)}


\* the two directories of the segmentation pathway (case-sensitive file system)
SegAnnNames == {FileName("a", ".txt"), FileName("a", ".TXT"), FileName("b", ".txt"),
                FileName("n", ".json")}

SegImageNames == {FileName("a", ".jpg"), FileName("a", ".png"), FileName("b", ".JPG"),
                  FileName("c", ".bmp")}

SegListings(names) == {s \in SeqsUpTo(names, MaxSegFiles) : NoDup(s)}

EntriesOf(fmt) ==
    CASE fmt = "yolo" -> YoloLines
      [] fmt = "voc" -> VocObjects
      [] fmt = "coco_single" -> CocoAnns
      [] fmt = "labelme" -> LabelmeShapes
      [] OTHER -> HkItems

\* the content of one annotation file: unreadable (open or the decoder raises), or
\* its entries in file order
FilesOf(fmt) ==
    {[readable |-> FALSE, entries |-> <<>>]}
    \cup {[readable |-> TRUE, entries |-> e] : e \in SeqsUpTo(EntriesOf(fmt), MaxEntries)}

Mappings == {NoMapping, (0 :> "cat")}

Thresholds == {0, 25, 26}

(***************************************************************************)
(* Initial states.                                                         *)
(***************************************************************************)
Idle ==
    /\ pc = "idle"
    /\ matched_pairs = <<>>
    /\ unmatched_annotations = <<>>
    /\ unmatched_images = <<>>
    /\ match_raised = FALSE
    /\ images = <<>>                     \* AnnotationConverter.__init__
    /\ categories = <<>>
    /\ annotations = <<>>
    /\ cat2id = EmptyStore.cat2id
    /\ img_count = 0
    /\ cat_count = 0
    /\ ann_count = 0
    /\ pair_idx = 1
    /\ failed_pairs = <<>>
    /\ include_unmatched_images = FALSE  \* the defaults of convert_to_coco
    /\ area_threshold = 25
    /\ pre_images = <<>>
    /\ pre_annotations = <<>>
    /\ writes = 0
    /\ crop_count = 0                    \* ImageCropper.__init__
    /\ ret = "none"
    /\ call_result = <<>>

\* a call of match_files on some pair of directories
InitMatch ==
    /\ pathway = "match"
    /\ format_type \in Formats
    /\ image_dir \in ImageListings
    /\ annotation_dir \in AnnListings(format_type)
    /\ class_mapping = NoMapping
    /\ call_args = <<>>
    /\ Idle

\* a call of convert_to_coco or crop_images
Init ==
    /\ pathway \in {"convert", "crop"}
    /\ format_type \in Formats
    /\ \E d \in SampleDirs(format_type) : image_dir = d.idir /\ annotation_dir = d.adir
    /\ class_mapping \in (IF format_type = "yolo" THEN Mappings ELSE {NoMapping})
    /\ call_args = <<>>
    /\ Idle

(***************************************************************************)
(* match_files as an entry point.                                          *)
(***************************************************************************)
SetMatch(m) ==
    /\ matched_pairs' = m.mp
    /\ unmatched_annotations' = m.ua
    /\ unmatched_images' = m.ui
    /\ match_raised' = m.raised

SetStore(st) ==
    /\ images' = st.images
    /\ categories' = st.categories
    /\ annotations' = st.annotations
    /\ cat2id' = st.cat2id
    /\ img_count' = st.img_count
    /\ cat_count' = st.cat_count
    /\ ann_count' = st.ann_count

MatchCall ==
    /\ pathway = "match"
    /\ pc = "idle"
    /\ LET m == match_files(annotation_dir, image_dir, format_type)
       IN  /\ SetMatch(m)
           /\ pc' = IF m.raised THEN "raised" ELSE "returned"
    /\ UNCHANGED <<callVars, inputVars, storeVars, pair_idx, failed_pairs, include_unmatched_images,
                   area_threshold, pre_images, pre_annotations, writes, crop_count, ret>>

(***************************************************************************)
(* convert_to_coco.                                                        *)
(***************************************************************************)
\* the test with the early return left out
NeverEmpty(pairs) == FALSE

\* if not matched_pairs
NoMatchedPairs(pairs) == pairs = <<>>

\* reset(), match_files(...), and the early `return False`
ConvertStart ==
    /\ pathway = "convert"
    /\ pc = "idle"
    /\ SetStore(reset)
    /\ LET m == match_files(annotation_dir, image_dir, format_type)
       IN  /\ SetMatch(m)
           /\ pc' = IF m.raised THEN "raised"
                    ELSE IF NoMatchedPairs(m.mp) THEN "done" ELSE "pairs"
           /\ ret' = IF ~m.raised /\ NoMatchedPairs(m.mp) THEN "False" ELSE "none"
    /\ pair_idx' = 1
    /\ UNCHANGED <<callVars, inputVars, failed_pairs, include_unmatched_images, area_threshold,
                   pre_images, pre_annotations, writes, crop_count>>

\* one iteration of `for ann_file, img_file in matched_pairs` with its try/except
ProcessPair ==
    /\ pathway = "convert"
    /\ pc = "pairs"
    /\ pair_idx <= Len(matched_pairs)
    /\ \E img \in ImageOpens, file \in FilesOf(format_type) :
          IF ~img.ok
          THEN /\ UNCHANGED storeVars                 \* Image.open raised: nothing appended
               /\ failed_pairs' = Append(failed_pairs, pair_idx)
          ELSE LET r == process_file_pair(Store, format_type, matched_pairs[pair_idx],
                                          img, file, class_mapping)
               IN  /\ r.st.ann_count <= MaxAnns
                   /\ SetStore(r.st)
                   /\ failed_pairs' = IF r.raised THEN Append(failed_pairs, pair_idx)
                                      ELSE failed_pairs
    /\ pair_idx' = pair_idx + 1
    /\ UNCHANGED <<callVars, inputVars, matchVars, pc, include_unmatched_images, area_threshold,
                   pre_images, pre_annotations, writes, crop_count, ret>>

\* the loop over unmatched_images: an image that opens gets a row
RECURSIVE AddImages(_, _, _)
AddImages(st, files, opens) ==
    IF files = <<>> THEN st
    ELSE AddImages(IF Head(opens).ok
                   THEN AppendImage(st, Head(files), Head(opens).w, Head(opens).h)
                   ELSE st,
                   Tail(files), Tail(opens))

\* if include_unmatched_images and unmatched_images: add them
AddUnmatchedImages ==
    /\ pathway = "convert"
    /\ pc = "pairs"
    /\ pair_idx > Len(matched_pairs)
    /\ \E inc \in BOOLEAN, opens \in [1..Len(unmatched_images) -> ImageOpens] :
          /\ include_unmatched_images' = inc
          /\ SetStore(IF inc /\ unmatched_images # <<>>
                      THEN AddImages(Store, unmatched_images, opens)
                      ELSE Store)
    /\ pc' = "save"
    /\ UNCHANGED <<callVars, inputVars, matchVars, pair_idx, failed_pairs, area_threshold,
                   pre_images, pre_annotations, writes, crop_count, ret>>

\* _save_coco(output_path, area_threshold): the filter, then the document is
\* written; `return True`
SaveCoco ==
    /\ pathway = "convert"
    /\ pc = "save"
    /\ \E threshold \in Thresholds :
          /\ area_threshold' = threshold
          /\ SetStore(check_and_filter_small_boxes(Store, threshold))
    /\ pre_images' = images
    /\ pre_annotations' = annotations
    /\ writes' = writes + 1
    /\ ret' = "True"
    /\ pc' = "done"
    /\ UNCHANGED <<callVars, inputVars, matchVars, pair_idx, failed_pairs, include_unmatched_images,
                   crop_count>>

(***************************************************************************)
(* crop_images.                                                            *)
(***************************************************************************)
\* _parse_<format>_annotations: the records of a readable file, skipped entries dropped
CropRecords(fmt, file, img_w, img_h, mapping) ==
    SelectSeq([k \in 1..Len(file.entries) |->
                   ParseEntry(fmt, file.entries[k], img_w, img_h, mapping)],
              LAMBDA r : r.ok)

CropStart ==
    /\ pathway = "crop"
    /\ pc = "idle"
    /\ crop_count' = 0
    /\ LET m == match_files(annotation_dir, image_dir, format_type)
       IN  /\ SetMatch(m)
           /\ pc' = IF m.raised THEN "raised"
                    ELSE IF NoMatchedPairs(m.mp) THEN "done" ELSE "pairs"
           /\ ret' = IF ~m.raised /\ NoMatchedPairs(m.mp) THEN "False" ELSE "none"
    /\ pair_idx' = 1
    /\ UNCHANGED <<callVars, inputVars, storeVars, failed_pairs, include_unmatched_images,
                   area_threshold, pre_images, pre_annotations, writes>>

\* _process_image_crop inside the caller's try/except: each record is cropped and
\* saved, or its crop raises and the record is passed over
CropPair ==
    /\ pathway = "crop"
    /\ pc = "pairs"
    /\ pair_idx <= Len(matched_pairs)
    /\ \E img \in ImageOpens, file \in FilesOf(format_type) :
          IF ~img.ok \/ (~file.readable /\ format_type = "yolo")
          THEN /\ failed_pairs' = Append(failed_pairs, pair_idx)
               /\ UNCHANGED crop_count
          ELSE LET recs == CropRecords(format_type, file, img.w, img.h, class_mapping)
               IN  \E saved \in SUBSET (1..Len(recs)) :
                      /\ crop_count' = crop_count + Cardinality(saved)
                      /\ UNCHANGED failed_pairs
    /\ pair_idx' = pair_idx + 1
    /\ UNCHANGED <<callVars, inputVars, matchVars, storeVars, pc, include_unmatched_images,
                   area_threshold, pre_images, pre_annotations, writes, ret>>

\* _print_crop_statistics(output_path); return True
CropReturn ==
    /\ pathway = "crop"
    /\ pc = "pairs"
    /\ pair_idx > Len(matched_pairs)
    /\ ret' = "True"
    /\ pc' = "done"
    /\ UNCHANGED <<callVars, inputVars, matchVars, storeVars, pair_idx, failed_pairs,
                   include_unmatched_images, area_threshold, pre_images, pre_annotations,
                   writes, crop_count>>

(***************************************************************************)
(* Functions called on their own.                                          *)
(***************************************************************************)
restVars ==
    <<pathway, call_args, inputVars, matchVars, storeVars, pair_idx, failed_pairs,
      include_unmatched_images, area_threshold, pre_images, pre_annotations, writes,
      crop_count, ret>>

\* the state before the function named by `name` is called on one of `args`
InitCall(name, args) ==
    /\ pathway = name
    /\ format_type = "none"
    /\ image_dir = <<>>
    /\ annotation_dir = <<>>
    /\ class_mapping = NoMapping
    /\ call_args \in args
    /\ Idle

\* the call returns `result`
Return(name, result) ==
    /\ pathway = name
    /\ pc = "idle"
    /\ call_result' = result
    /\ pc' = "returned"
    /\ UNCHANGED restVars

CallReturned(name) == pathway = name /\ pc = "returned"

\* _get_deepest_category_name(item) and _get_deepest_category_name_for_cropper(item)
InitTag == InitCall("tag", TagTrees)

TagCall ==
    Return("tag", [store |-> find_deepest_tag(call_args),
                   cropper |-> find_deepest_tag_for_cropper(call_args)])

\* entries whose category name is a JSON array
ListNamed(fmt) ==
    CASE fmt = "coco_single" -> {CocoAnn("[cat]", FALSE, 0, <<100, 100, 200, 400>>, TRUE)}
      [] fmt = "labelme" -> {LabelmeShape("[cat]", <<<<100, 100>>, <<300, 500>>>>)}
      [] fmt = "hk" -> {HkItem(Node("[cat]", <<>>), "list", <<Pt(5, 5), Pt(15, 25)>>)}
      [] OTHER -> {}

\* two-point entries whose second point is the top-left corner
CornersSwapped(fmt) ==
    CASE fmt = "labelme" -> {LabelmeShape("cat", <<<<300, 500>>, <<100, 100>>>>)}
      [] fmt = "hk" -> {HkItem(Node("cat", <<>>), "list", <<Pt(15, 25), Pt(5, 5)>>)}
      [] OTHER -> {}

ParseFilesOf(fmt) ==
    {[readable |-> FALSE, entries |-> <<>>]}
    \cup {[readable |-> TRUE, entries |-> e] :
             e \in SeqsUpTo(EntriesOf(fmt) \cup ListNamed(fmt) \cup CornersSwapped(fmt),
                            MaxEntries)}

\* one annotation file parsed for one opened image: by _process_file_pair into an
\* empty store, and by the cropper's _parse_<format>_annotations
ParseArgs ==
    {[fmt |-> fmt, file |-> file, img |-> img, mapping |-> mapping] :
        fmt \in {"yolo"}, file \in ParseFilesOf("yolo"),
        img \in {i \in ImageOpens : i.ok}, mapping \in Mappings}
    \cup UNION {{[fmt |-> fmt, file |-> file, img |-> img, mapping |-> NoMapping] :
                    file \in ParseFilesOf(fmt), img \in {i \in ImageOpens : i.ok}} :
                fmt \in Formats \ {"yolo"}}

InitParse == InitCall("parse", ParseArgs)

ParseCall ==
    LET a == call_args
        pair == Pair(FileName("a", AnnExt(a.fmt)), FileName("a", ".jpg"))
        raises == ~a.file.readable /\ a.fmt = "yolo"
    IN  Return("parse",
               [store |-> process_file_pair(EmptyStore, a.fmt, pair, a.img, a.file, a.mapping),
                cropper |-> [raised |-> raises,
                             records |-> IF a.file.readable
                                         THEN CropRecords(a.fmt, a.file, a.img.w, a.img.h,
                                                          a.mapping)
                                         ELSE <<>>]])

\* detect_format(input_path)
InitDetect == InitCall("detect", DetectDirs)

DetectCall == Return("detect", detect_format(call_args))

\* _txt_to_mask(txt_path, mask_path, width, height)
InitMask ==
    InitCall("mask", {[file |-> f, width |-> wh[1], height |-> wh[2]] :
                         f \in PolygonFiles, wh \in MaskSizes})

MaskCall == Return("mask", txt_to_mask(call_args.file, call_args.width, call_args.height))

\* _apply_expansion_and_bounds(bbox, img_w, img_h, expansion_ratio, ...)
InitExpand ==
    InitCall("expand", {[bbox |-> b, img_w |-> wh[1], img_h |-> wh[2], expansion_ratio |-> r] :
                           b \in ExpandBoxes, wh \in ExpandSizes, r \in ExpandRatios})

ExpandCall ==
    Return("expand", apply_expansion_and_bounds(call_args.bbox, call_args.img_w,
                                                call_args.img_h, call_args.expansion_ratio))

\* detect_format on a directory that lists one .json file
InitJson == InitCall("json", JsonDocs)

JsonCall ==
    LET f == DetectFile(FileName("a", ".json"), call_args)
    IN  Return("json", [score |-> FileScore(f),
                        detected |-> detect_format([exists |-> TRUE, files |-> <<f>>])])


\* _check_and_filter_small_boxes(area_threshold) called on a store, and called
\* again on what the first call left
InitFilter ==
    InitCall("filter", {[st |-> st, threshold |-> t] : st \in FilterStores, t \in Thresholds})

FilterCall ==
    LET once == check_and_filter_small_boxes(call_args.st, call_args.threshold)
    IN  Return("filter", [once |-> once,
                          twice |-> check_and_filter_small_boxes(once, call_args.threshold)])


\* convert_to_coco called again on the AnnotationConverter a conversion has used
\* (it returned True or False, or raised): new arguments, the object's fields as
\* they are; `writes` goes on counting the documents written
ConvertAgain ==
    /\ pathway = "convert"
    /\ pc \in {"done", "raised"}
    /\ writes < MaxConversions
    /\ format_type' \in Formats
    /\ \E d \in AgainDirs(format_type') : image_dir' = d.idir /\ annotation_dir' = d.adir
    /\ class_mapping' = NoMapping
    /\ pc' = "idle"
    /\ ret' = "none"
    /\ matched_pairs' = <<>>
    /\ unmatched_annotations' = <<>>
    /\ unmatched_images' = <<>>
    /\ match_raised' = FALSE
    /\ pair_idx' = 1
    /\ failed_pairs' = <<>>
    /\ include_unmatched_images' = FALSE
    /\ area_threshold' = 25
    /\ pre_images' = <<>>
    /\ pre_annotations' = <<>>
    /\ UNCHANGED <<callVars, pathway, storeVars, writes, crop_count>>


(***************************************************************************)
(* The segmentation pathway: run_segmentation_conversion_process.  `opens` *)
(* are the images whose size can be read, `masked` the polygon files for   *)
(* which _txt_to_mask returns True, `choice` the answer to the clean-up    *)
(* question.                                                               *)
(***************************************************************************)
SegImageExts == <<".jpg", ".jpeg", ".png", ".bmp", ".tif", ".tiff">>

\* _find_matching_image(txt_name, images_dir): the first base_name + ext that exists
find_matching_image(txt_name, idir) ==
    LET hits == {k \in 1..Len(SegImageExts) : Contains(idir, FileName(txt_name.base, SegImageExts[k]))}
    IN  IF hits = {} THEN NotFound
        ELSE Found(FileName(txt_name.base, SegImageExts[CHOOSE k \in hits : \A j \in hits : k <= j]))

\* _cleanup_unmatched_files: every listed file is removed
cleanup_unmatched_files(txt_no_image_list, image_no_txt_list) ==
    [txt |-> Range(txt_no_image_list), img |-> Range(image_no_txt_list)]

run_segmentation_conversion_process(adir, idir, opens, masked, choice) ==
    LET txt_files == SelectSeq(adir, LAMBDA f : Lower(f.ext) = ".txt")
        usable(t) == find_matching_image(t, idir).found
                     /\ find_matching_image(t, idir).name \in opens
        done == SelectSeq(txt_files, LAMBDA t : usable(t) /\ t \in masked)
        txt_no_image_list == SelectSeq(txt_files, LAMBDA t : ~usable(t))
        image_files == SelectSeq(idir, LAMBDA f : Lower(f.ext) \in Range(SegImageExts))
        image_no_txt_list ==
            SelectSeq(image_files, LAMBDA f : ~Contains(adir, FileName(f.base, ".txt")))
        asked == txt_no_image_list # <<>> \/ image_no_txt_list # <<>>
    IN  [masks |-> [k \in 1..Len(done) |->
                        [txt |-> done[k], img |-> find_matching_image(done[k], idir).name,
                         mask |-> FileName(done[k].base, ".png")]],
         successful_count |-> Len(done),
         txt_no_image_list |-> txt_no_image_list,
         image_no_txt_list |-> image_no_txt_list,
         deleted |-> IF asked /\ choice
                     THEN cleanup_unmatched_files(txt_no_image_list, image_no_txt_list)
                     ELSE [txt |-> {}, img |-> {}]]

InitSeg ==
    InitCall("seg", {[adir |-> a, idir |-> i, opens |-> o, masked |-> m, choice |-> c] :
                        a \in SegListings(SegAnnNames), i \in SegListings(SegImageNames),
                        o \in SUBSET {FileName("a", ".jpg")}, m \in SUBSET {FileName("a", ".TXT")},
                        c \in BOOLEAN})

\* images other than a.jpg open and polygon files other than a.TXT convert
SegCall ==
    LET a == call_args
    IN  Return("seg", run_segmentation_conversion_process(
                          a.adir, a.idir,
                          (Range(a.idir) \ {FileName("a", ".jpg")}) \cup a.opens,
                          (Range(a.adir) \ {FileName("a", ".TXT")}) \cup a.masked,
                          a.choice))

(***************************************************************************)
(* Specifications.                                                         *)
(***************************************************************************)
NextMatch == MatchCall

SpecMatch == InitMatch /\ [][NextMatch]_vars

NextTag == TagCall

SpecTag == InitTag /\ [][NextTag]_vars

NextParse == ParseCall

SpecParse == InitParse /\ [][NextParse]_vars

NextDetect == DetectCall

SpecDetect == InitDetect /\ [][NextDetect]_vars

NextMask == MaskCall

SpecMask == InitMask /\ [][NextMask]_vars

NextExpand == ExpandCall

SpecExpand == InitExpand /\ [][NextExpand]_vars

NextJson == JsonCall

SpecJson == InitJson /\ [][NextJson]_vars


NextFilter == FilterCall

SpecFilter == InitFilter /\ [][NextFilter]_vars


\* conversions one after another on the same AnnotationConverter
InitAgain == Init /\ pathway = "convert"

NextAgain ==
    \/ ConvertStart
    \/ ProcessPair
    \/ AddUnmatchedImages
    \/ SaveCoco
    \/ ConvertAgain

SpecAgain == InitAgain /\ [][NextAgain]_vars


NextSeg == SegCall

SpecSeg == InitSeg /\ [][NextSeg]_vars

Next ==
    \/ ConvertStart
    \/ ProcessPair
    \/ AddUnmatchedImages
    \/ SaveCoco
    \/ CropStart
    \/ CropPair
    \/ CropReturn

Spec == Init /\ [][Next]_vars

(***************************************************************************)
(* Properties of match_files (checked under SpecMatch).                    *)
(***************************************************************************)
Occurrences(s, x) == Cardinality({i \in 1..Len(s) : s[i] = x})

PairImages == [i \in 1..Len(matched_pairs) |-> matched_pairs[i].img]
PairAnnotations == [i \in 1..Len(matched_pairs) |-> matched_pairs[i].ann]

Returned == pathway = "match" /\ pc = "returned"

\* C1: match_files never returns the same image file as the image of two different
\* matched pairs, whatever the format and the content of the two directories.
C1_NoImageInTwoPairs ==
    Returned => \A i, j \in 1..Len(matched_pairs) :
                    i # j => matched_pairs[i].img # matched_pairs[j].img

\* C2: on return every image candidate occurs exactly once in the images of
\* matched_pairs followed by unmatched_images.
C2_EveryImageAccountedOnce ==
    Returned => \A f \in Range(ImageFiles(image_dir)) :
                    Occurrences(PairImages \o unmatched_images, f) = 1

\* C3: on return every annotation candidate is in exactly one of matched_pairs and
\* unmatched_annotations (a second file resolving to a taken image, or a file whose
\* lookup raised, being only in unmatched_annotations).
C3_EveryAnnotationInExactlyOne ==
    Returned => \A i \in 1..Len(AnnotationFiles(format_type, annotation_dir)) :
                    LET a == AnnotationFiles(format_type, annotation_dir)[i].name
                    IN  Occurrences(PairAnnotations \o unmatched_annotations, a) = 1

(***************************************************************************)
(* Properties of a conversion (checked under Spec).                        *)
(***************************************************************************)
Converted == pathway = "convert" /\ pc = "done" /\ ret = "True"

\* an annotation without its two identifiers
Content(a) == [category_id |-> a.category_id, bbox |-> a.bbox, area |-> a.area]
Contents(anns) == [i \in 1..Len(anns) |-> Content(anns[i])]

\* C4: the annotations after the quality filter are exactly the pre-filter
\* annotations whose width*height is >= area_threshold, in their original order.
C4_FilterKeepsExactlyLargeBoxes ==
    Converted =>
        Contents(annotations) =
            Contents(SelectSeq(pre_annotations,
                               LAMBDA a : a.bbox[3] * a.bbox[4] >= area_threshold))

\* reached: a filter run that dropped a box and kept one whose area is the threshold
C4_Witness ==
    /\ Converted
    /\ Len(annotations) < Len(pre_annotations)
    /\ \E i \in 1..Len(annotations) :
          annotations[i].bbox[3] * annotations[i].bbox[4] = area_threshold

\* C5: after the quality filter every image left in the store is referenced by at
\* least one annotation left in the store.
C5_EveryImageReferenced ==
    Converted => \A i \in 1..Len(images) :
                    \E k \in 1..Len(annotations) : annotations[k].image_id = images[i].id

\* C6: after the quality filter the image ids are 1..N and the annotation ids are
\* 1..M, in list order.
C6_IdsStartAtOne ==
    Converted => /\ \A i \in 1..Len(images) : images[i].id = i
                 /\ \A k \in 1..Len(annotations) : annotations[k].id = k

\* C7: at every stage of a conversion every annotation's image_id is the id of
\* exactly one image of the store.
C7_ImageIdReferencesOneImage ==
    pathway = "convert" =>
        \A k \in 1..Len(annotations) :
            Cardinality({i \in 1..Len(images) : images[i].id = annotations[k].image_id}) = 1

\* reached: a filter run that dropped an image and renumbered the ones it kept
C7_Witness ==
    /\ Converted
    /\ Len(images) < Len(pre_images)
    /\ Len(images) >= 1
    /\ \E k \in 1..Len(annotations) :
          \E j \in 1..Len(pre_annotations) :
              /\ Content(pre_annotations[j]) = Content(annotations[k])
              /\ pre_annotations[j].image_id # annotations[k].image_id

\* C8: the category list has no duplicate names, its ids are 0..N-1 in list order,
\* cat2id maps exactly the listed names to the ids of their rows, and every
\* annotation's category_id is the id of a listed category.
C8_CategoriesConsistent ==
    pathway = "convert" =>
        /\ \A i, j \in 1..Len(categories) : i # j => categories[i].name # categories[j].name
        /\ \A i \in 1..Len(categories) : categories[i].id = i - 1
        /\ DOMAIN cat2id = {categories[i].name : i \in 1..Len(categories)}
        /\ \A i \in 1..Len(categories) : cat2id[categories[i].name] = categories[i].id
        /\ cat_count = Len(categories)
        /\ \A k \in 1..Len(annotations) :
              \E i \in 1..Len(categories) : categories[i].id = annotations[k].category_id

\* reached: two categories, one of them seen again by a later annotation
C8_Witness ==
    /\ pathway = "convert"
    /\ Len(categories) = 2
    /\ \E j, k \in 1..Len(annotations) :
          j # k /\ annotations[j].category_id = annotations[k].category_id

\* C9: every annotation of the store has width >= 0 and height >= 0 and an area
\* equal to width*height.
C9_BoxesNonNegative ==
    pathway = "convert" =>
        \A k \in 1..Len(annotations) :
            /\ annotations[k].bbox[3] >= 0
            /\ annotations[k].bbox[4] >= 0
            /\ annotations[k].area = annotations[k].bbox[3] * annotations[k].bbox[4]

\* C10: with no matched pair convert_to_coco and crop_images return False and
\* write nothing; with a matched pair convert_to_coco writes the output exactly
\* once and returns True, also when every pair failed.
C10_ZeroMatchFailsElseWritesOnce ==
    /\ (pc = "done" /\ matched_pairs = <<>>) => (ret = "False" /\ writes = 0 /\ crop_count = 0)
    /\ (pathway = "convert" /\ pc = "done" /\ matched_pairs # <<>>) =>
            (ret = "True" /\ writes = 1)
    /\ (pc # "done") => (ret = "none" /\ writes = 0)

\* reached: a conversion that returned True although every matched pair failed
C10_Witness ==
    /\ Converted
    /\ writes = 1
    /\ Len(matched_pairs) >= 1
    /\ Len(failed_pairs) = Len(matched_pairs)

\* C11: when a matched pair raises during convert_to_coco, the pairs after it are
\* still processed and the failed pair contributes no image row (hence no
\* annotation row) to the final store.  Stated for an image whose every pair
\* failed and which is not among the unmatched images.
C11_FailedPairLeavesNoRow ==
    Converted =>
        /\ pair_idx = Len(matched_pairs) + 1
        /\ \A k \in Range(failed_pairs) :
              LET f == matched_pairs[k].img
              IN  (/\ \A j \in 1..Len(matched_pairs) :
                          matched_pairs[j].img = f => j \in Range(failed_pairs)
                   /\ ~Contains(unmatched_images, f))
                  => \A i \in 1..Len(images) : images[i].file_name # f

\* the tagName values on the first-child path from a node
RECURSIVE FirstChildPath(_)
FirstChildPath(item) ==
    {item.tagName} \cup (IF item.children = <<>> THEN {} ELSE FirstChildPath(item.children[1]))

\* the tagName values of a tree, children (left to right) before their parent
RECURSIVE PostOrder(_)
RECURSIVE PostOrderAll(_)
PostOrder(item) == Append(PostOrderAll(item.children), item.tagName)
PostOrderAll(children) ==
    IF children = <<>> THEN <<>>
    ELSE PostOrder(Head(children)) \o PostOrderAll(Tail(children))

FirstNonEmpty(tags) ==
    LET named == SelectSeq(tags, LAMBDA t : t # "") IN IF named = <<>> THEN "" ELSE named[1]

\* C12 as stated: the category name of an hk entry tree is the tagName of a node
\* on the first-child path from the entry, never one from a second or later
\* sibling branch.
C12_NameOnFirstChildPath ==
    CallReturned("tag") =>
        /\ call_result.store \in FirstChildPath(call_args)
        /\ call_result.cropper \in FirstChildPath(call_args)

\* C12 amended: the category name (store and cropper alike) is the first non-empty
\* tagName in a post-order, left-to-right walk of the entry tree, and '' when the
\* tree holds no non-empty tagName; it may come from a later sibling branch.
C12_FirstNonEmptyInPostOrder ==
    CallReturned("tag") =>
        /\ call_result.store = FirstNonEmpty(PostOrder(call_args))
        /\ call_result.cropper = call_result.store

\* reached: the first child yields nothing and the name comes from the second child
C12_Witness ==
    /\ CallReturned("tag")
    /\ Len(call_args.children) = 2
    /\ find_deepest_tag(call_args.children[1]) = ""
    /\ call_result.store # ""
    /\ call_result.store = find_deepest_tag(call_args.children[2])
    /\ call_result.store \notin FirstChildPath(call_args)

\* the YOLO line `0 0.5 0.5 0.2 0.4`
ScenarioLine ==
    YoloLine(5, Tok(TRUE, 0), Tok(TRUE, 500), Tok(TRUE, 500), Tok(TRUE, 200), Tok(TRUE, 400))

\* a file holding that one line was parsed for an image of width 100, height 200
ScenarioParsed ==
    /\ CallReturned("parse")
    /\ call_args.fmt = "yolo"
    /\ call_args.file.readable
    /\ call_args.file.entries = <<ScenarioLine>>
    /\ call_args.img.w = 100
    /\ call_args.img.h = 200

\* one annotation in the store and one record in the cropper, both with this box
ScenarioYields(b) ==
    /\ Len(call_result.store.st.annotations) = 1
    /\ call_result.store.st.annotations[1].bbox = b
    /\ call_result.store.st.annotations[1].area = 1600
    /\ Len(call_result.cropper.records) = 1
    /\ call_result.cropper.records[1].bbox = b

\* C13 as stated: the YOLO line `0 0.5 0.5 0.2 0.4` for an image of width 100 and
\* height 200 yields exactly one annotation with bbox [40,30,20,80], area 1600.
C13_ScenarioBoxAsStated == ScenarioParsed => ScenarioYields(<<40, 30, 20, 80>>)

\* C13 amended: that line yields exactly one annotation with bbox [40,60,20,80] and
\* area 1600: left = int(0.5*100 - 20/2), top = int(0.5*200 - 80/2), width =
\* int(0.2*100), height = int(0.4*200).
C13_ScenarioBox == ScenarioParsed => ScenarioYields(<<40, 60, 20, 80>>)

\* reached: the scenario line parsed into one annotation of area 1600
C13_Witness ==
    /\ ScenarioParsed
    /\ Len(call_result.store.st.annotations) = 1
    /\ call_result.store.st.annotations[1].area = 1600
    /\ call_result.store.st.images[1].width = 100

\* the number of sampled files of a listed directory that scored fmt
Scored(fmt) == format_scores(call_args.files)[fmt]

\* C14: detect_format resolves by fixed priority over the sample scores and the
\* file counts: labelme if a sampled file scored labelme; else hk if one scored hk;
\* else yolo if one scored yolo or classes.txt is listed with at least one other
\* .txt file; else voc if one scored voc and an .xml file exists; else coco_single
\* if one scored coco_single and a .json file exists; else none; and none for a
\* missing or empty directory.
C14_FixedPriority ==
    CallReturned("detect") =>
        LET files == call_args.files
            listed == call_args.exists /\ files # <<>>
            labelme == listed /\ Scored("labelme") > 0
            hk == listed /\ Scored("hk") > 0
            yolo == listed /\ (Scored("yolo") > 0
                               \/ (has_classes_txt(files) /\ txt_count(files) > 0))
            voc == listed /\ Scored("voc") > 0 /\ xml_count(files) > 0
            coco == listed /\ Scored("coco_single") > 0 /\ json_count(files) > 0
        IN  /\ (call_result = "labelme") <=> labelme
            /\ (call_result = "hk") <=> (~labelme /\ hk)
            /\ (call_result = "yolo") <=> (~labelme /\ ~hk /\ yolo)
            /\ (call_result = "voc") <=> (~labelme /\ ~hk /\ ~yolo /\ voc)
            /\ (call_result = "coco_single") <=> (~labelme /\ ~hk /\ ~yolo /\ ~voc /\ coco)
            /\ (call_result = "None") <=> (~labelme /\ ~hk /\ ~yolo /\ ~voc /\ ~coco)

\* reached: a directory whose sample scored hk, yolo, voc and coco_single at once
\* resolved to hk
C14_Witness ==
    /\ CallReturned("detect")
    /\ call_result = "hk"
    /\ Scored("yolo") > 0
    /\ Scored("voc") > 0
    /\ Scored("coco_single") > 0

\* line i of the file is a valid polygon: parsed, class id within [0, max_cls]
ValidPolygon(i) ==
    LET r == parse_polygon_line(call_args.file.lines[i], call_args.width, call_args.height)
    IN  ~r.none /\ ~r.raised /\ r.cls >= 0 /\ r.cls <= max_cls

\* the valid polygons of the file that cover pixel p, by line number
Covering(p) ==
    {i \in 1..Len(call_args.file.lines) :
        /\ ValidPolygon(i)
        /\ p \in Cover(parse_polygon_line(call_args.file.lines[i],
                                          call_args.width, call_args.height).pts)}

LastOf(S) == CHOOSE i \in S : \A j \in S : j <= i

\* C15: in the mask _txt_to_mask produces for one polygon file, every pixel has
\* the value class_id+1 of the last valid polygon (in file order) that covers it
\* and 0 if no valid polygon covers it, and every value lies in 0..max_cls+1.
C15_LastCoveringPolygonWins ==
    (CallReturned("mask") /\ call_result.ok) =>
        \A p \in Pixels(call_args.width, call_args.height) :
            /\ call_result.mask[p] =
                  IF Covering(p) = {} THEN 0
                  ELSE call_args.file.lines[LastOf(Covering(p))][1].int.v + 1
            /\ call_result.mask[p] \in 0..(max_cls + 1)

\* reached: a mask with a background pixel, a pixel of the first polygon only, and
\* a pixel where a later polygon of another class overwrote an earlier one
C15_Witness ==
    /\ CallReturned("mask")
    /\ call_result.ok
    /\ \E p, q, u \in Pixels(call_args.width, call_args.height) :
          /\ Covering(p) = {}
          /\ Covering(q) = {1}
          /\ Cardinality(Covering(u)) = 2
          /\ call_result.mask[u] # call_result.mask[q]
          /\ call_result.mask[u] = max_cls + 1

\* the left (k = 1) or top (k = 2) of the scaled box before any adjustment, and its
\* scaled width or height
RawOrigin(k) ==
    LET size == call_args.bbox[k + 2]
    IN  call_args.bbox[k] + (size \div 2)
        - (TruncDiv(size * call_args.expansion_ratio, 10) \div 2)

RawSize(k) == TruncDiv(call_args.bbox[k + 2] * call_args.expansion_ratio, 10)

ImageLimit(k) == IF k = 1 THEN call_args.img_w ELSE call_args.img_h

\* C16: for every box, image size and expansion_ratio # 1.0 the returned box has
\* x >= 0, y >= 0, x+w <= image width, y+h <= image height; a negative left/top is
\* pinned to 0 and the size is not reduced by the pinned amount; an overshoot at
\* the right/bottom shrinks the size and leaves x/y where they are; with
\* expansion_ratio 1.0 the box comes back unchanged.
C16_ExpandedBoxInBounds ==
    CallReturned("expand") =>
        IF call_args.expansion_ratio = 10 THEN call_result = call_args.bbox
        ELSE \A k \in {1, 2} :
                /\ call_result[k] >= 0
                /\ call_result[k] + call_result[k + 2] <= ImageLimit(k)
                /\ call_result[k] = IF RawOrigin(k) < 0 THEN 0 ELSE RawOrigin(k)
                /\ (call_result[k] + RawSize(k) <= ImageLimit(k))
                       => call_result[k + 2] = RawSize(k)
                /\ (call_result[k] + RawSize(k) > ImageLimit(k))
                       => call_result[k + 2] = ImageLimit(k) - call_result[k]

\* reached: a box pinned at the left with its full scaled width, and shrunk at the
\* bottom with its top where the scaling put it
C16_Witness ==
    /\ CallReturned("expand")
    /\ call_args.expansion_ratio # 10
    /\ RawOrigin(1) < 0
    /\ call_result[1] = 0
    /\ call_result[3] = RawSize(1)
    /\ call_result[3] > 0
    /\ RawOrigin(2) > 0
    /\ call_result[2] = RawOrigin(2)
    /\ call_result[4] < RawSize(2)

\* expansion_ratio 2.0 applied to box [40,30,20,80] in an image of 100 x 200
ScenarioExpanded ==
    /\ CallReturned("expand")
    /\ call_args.bbox = <<40, 30, 20, 80>>
    /\ call_args.img_w = 100
    /\ call_args.img_h = 200
    /\ call_args.expansion_ratio = 20

\* C17: expansion_ratio 2.0 on box [40,30,20,80] in a 100 x 200 image gives width
\* 40 and height 160 about the same centre, and, the expanded top being negative,
\* a box whose top is 0: [30, 0, 40, 160].
C17_ScenarioExpansion ==
    ScenarioExpanded =>
        /\ call_result = <<30, 0, 40, 160>>
        /\ RawOrigin(2) < 0
        /\ 2 * call_result[1] + call_result[3] = 2 * call_args.bbox[1] + call_args.bbox[3]

\* reached: the scenario box expanded and returned with its top at 0
C17_Witness == ScenarioExpanded /\ call_result[2] = 0 /\ call_result[4] = 160

\* convert_to_coco has reset the store and not yet called the quality filter
BeforeFilter == pathway = "convert" /\ pc \in {"pairs", "save"}

\* C18: before the quality filter, after any sequence of processed pairs (pairs
\* whose image cannot be opened or whose file fails to parse included) and added
\* unmatched images, image ids are 0..N-1 in append order, annotation ids are
\* 0..M-1 in append order, and image_id never decreases along the annotations.
C18_DenseIdsInAppendOrder ==
    BeforeFilter =>
        /\ \A i \in 1..Len(images) : images[i].id = i - 1
        /\ \A k \in 1..Len(annotations) : annotations[k].id = k - 1
        /\ \A j, k \in 1..Len(annotations) :
              j <= k => annotations[j].image_id <= annotations[k].image_id
        /\ img_count = Len(images)
        /\ ann_count = Len(annotations)

\* reached: a pair failed, an unmatched image was added, and the store holds
\* annotations of two different images
C18_Witness ==
    /\ pathway = "convert"
    /\ pc = "save"
    /\ failed_pairs # <<>>
    /\ include_unmatched_images
    /\ \E i \in 1..Len(images) : Contains(unmatched_images, images[i].file_name)
    /\ Len(images) >= 2
    /\ Len(annotations) >= 2

\* an image row without its id
ImageContent(img) == [file_name |-> img.file_name, width |-> img.width, height |-> img.height]

\* the position in a list of image rows of the row with the given id
RowOf(imgs, id) == CHOOSE i \in 1..Len(imgs) : imgs[i].id = id

\* the pre-filter annotations that survive, in their order
Survivors ==
    SelectSeq(pre_annotations, LAMBDA a : a.bbox[3] * a.bbox[4] >= area_threshold)

\* C19: the quality filter's renumbering preserves the annotation-to-image
\* association and the order of the images: the surviving image rows are pre-filter
\* rows (file_name, width, height) taken in their original order, and each surviving
\* annotation's rewritten image_id is the new id of the very row it referenced
\* before the filter.
C19_RenumberingKeepsAssociation ==
    Converted =>
        /\ Len(annotations) = Len(Survivors)
        /\ \E f \in [1..Len(images) -> 1..Len(pre_images)] :
              /\ \A i, j \in 1..Len(images) : i < j => f[i] < f[j]
              /\ \A i \in 1..Len(images) :
                    ImageContent(images[i]) = ImageContent(pre_images[f[i]])
              /\ \A k \in 1..Len(annotations) :
                    f[RowOf(images, annotations[k].image_id)]
                        = RowOf(pre_images, Survivors[k].image_id)

\* reached: the filter removed a box and the unannotated third image, kept the
\* first two images in their order, and rewrote the image_id of an annotation of
\* the second one
C19_Witness ==
    /\ Converted
    /\ Len(annotations) < Len(pre_annotations)
    /\ Len(pre_images) = 3
    /\ Len(images) = 2
    /\ images[1].file_name = pre_images[1].file_name
    /\ images[2].file_name = pre_images[2].file_name
    /\ images[1].file_name # images[2].file_name
    /\ \E k \in 1..Len(annotations) :
          /\ annotations[k].image_id = images[2].id
          /\ Survivors[k].image_id = pre_images[2].id
          /\ annotations[k].image_id # Survivors[k].image_id

\* C20: an image added to the store only because include_unmatched_images was
\* set is dropped by the quality filter whenever the conversion runs with a
\* nonzero area threshold, so the written output holds no unmatched image; with
\* include_unmatched_images false no unmatched image is in the store at all.
C20_UnmatchedImagesNeverWritten ==
    (Converted /\ (area_threshold > 0 \/ ~include_unmatched_images)) =>
            \A i \in 1..Len(images) : ~Contains(unmatched_images, images[i].file_name)

\* C21: a sampled JSON file scores labelme if it has a shapes list and an imagePath
\* key; otherwise hk if it has imgName and a list with an entry holding both tagInfo
\* and tagName; otherwise coco_single if it has an annotations list; in particular
\* a file with imgName, a list without such an entry, and an annotations list
\* scores coco_single.
C21_JsonScoresInOrder ==
    CallReturned("json") =>
        LET c == call_args
            labelme == c.parses /\ c.shapes = "list" /\ c.imagePath
            hk == c.parses /\ c.imgName /\ c.list = "tagged"
            coco == c.parses /\ c.annotations = "list"
        IN  /\ call_result.score =
                  (IF labelme THEN "labelme" ELSE IF hk THEN "hk"
                   ELSE IF coco THEN "coco_single" ELSE "None")
            /\ call_result.detected = call_result.score

\* a line the polygon parser or the class test is said to reject: fewer than 7
\* tokens or an even number of them, a token that is no number, a class id outside
\* [0, max_cls]
RejectedLine(l) ==
    \/ Len(l) < 7
    \/ Len(l) % 2 = 0
    \/ ~l[1].int.ok
    \/ \E k \in 2..Len(l) : ~l[k].float.ok
    \/ l[1].int.v < 0
    \/ l[1].int.v > max_cls

\* C22: polygon-line rejection is per line: whatever lines of a readable file are
\* rejected (too few or an even number of tokens, class id outside [0, max_cls],
\* a token that is no number), the mask is written and holds exactly the other
\* lines, painted in file order, their points clamped to
\* [0, width-1] x [0, height-1].
C22_RejectionIsPerLine ==
    (CallReturned("mask") /\ call_args.file.readable) =>
        IF ~call_result.ok THEN FALSE
        ELSE /\ \A i \in 1..Len(call_args.file.lines) :
                    /\ ValidPolygon(i) <=> ~RejectedLine(call_args.file.lines[i])
                    /\ ValidPolygon(i) =>
                          LET pts == parse_polygon_line(call_args.file.lines[i],
                                                        call_args.width, call_args.height).pts
                          IN  \A j \in 1..Len(pts) :
                                  /\ pts[j][1] \in 0..(call_args.width - 1)
                                  /\ pts[j][2] \in 0..(call_args.height - 1)
             /\ \A p \in Pixels(call_args.width, call_args.height) :
                    call_result.mask[p] =
                        IF Covering(p) = {} THEN 0
                        ELSE call_args.file.lines[LastOf(Covering(p))][1].int.v + 1

\* the (category name, bbox) records of the store's annotations, in list order
StoreRecords(st) ==
    [k \in 1..Len(st.annotations) |->
        [category |-> (CHOOSE c \in Range(st.categories) :
                           c.id = st.annotations[k].category_id).name,
         bbox |-> st.annotations[k].bbox]]

CropperRecords(recs) == [k \in 1..Len(recs) |-> [category |-> recs[k].category, bbox |-> recs[k].bbox]]

\* C23: for each of the five formats and every annotation file content, the
\* store-building parser and the cropping parser produce the same ordered sequence
\* of (category name, bbox) records.
C23_ParsersAgree ==
    CallReturned("parse") =>
        /\ call_result.store.raised = call_result.cropper.raised
        /\ StoreRecords(call_result.store.st) = CropperRecords(call_result.cropper.records)

\* the name, and whether an entry of a labelme or hk file reaches the box computation
EntryName(fmt, e) == IF fmt = "labelme" THEN e.label ELSE find_deepest_tag(e.node)

TwoPoints(fmt, e) ==
    /\ EntryName(fmt, e) # ""
    /\ IF fmt = "labelme"
       THEN Len(e.points) = 2 /\ Len(e.points[1]) = 2 /\ Len(e.points[2]) = 2
       ELSE e.tagInfo.kind = "list" /\ Len(e.tagInfo.coord) = 2
            /\ e.tagInfo.coord[1].haskeys /\ e.tagInfo.coord[2].haskeys

\* x1, y1, x2, y2 as the code names them (labelme: after int())
Corners(fmt, e) ==
    IF fmt = "labelme"
    THEN <<TruncDiv(e.points[1][1], 10), TruncDiv(e.points[1][2], 10),
           TruncDiv(e.points[2][1], 10), TruncDiv(e.points[2][2], 10)>>
    ELSE <<e.tagInfo.coord[1].x, e.tagInfo.coord[1].y, e.tagInfo.coord[2].x, e.tagInfo.coord[2].y>>

SwapPoints(fmt, e) ==
    IF fmt = "labelme" THEN [e EXCEPT !.points = <<e.points[2], e.points[1]>>]
    ELSE [e EXCEPT !.tagInfo.coord = <<e.tagInfo.coord[2], e.tagInfo.coord[1]>>]

Abs(n) == IF n >= 0 THEN n ELSE -n

ExpectedBox(c) == <<Min(c[1], c[3]), Min(c[2], c[4]), Abs(c[1] - c[3]), Abs(c[2] - c[4])>>

BoxesAsExpected(fmt, entries, boxes) ==
    /\ Len(boxes) = Len(entries)
    /\ \A k \in 1..Len(entries) :
          /\ boxes[k] = ExpectedBox(Corners(fmt, entries[k]))
          /\ boxes[k] = ExpectedBox(Corners(fmt, SwapPoints(fmt, entries[k])))
          /\ ParseEntry(fmt, SwapPoints(fmt, entries[k]), 0, 0, NoMapping).bbox = boxes[k]
          /\ boxes[k][3] >= 0 /\ boxes[k][4] >= 0

\* C24: a labelme shape or hk entry with exactly two points yields the box
\* [min(x1,x2), min(y1,y2), |x1-x2|, |y1-y2|], in the store and in the cropper's
\* records alike; the box is the same with the two points swapped, and its width
\* and height are never negative.
C24_TwoPointBox ==
    (CallReturned("parse") /\ call_args.fmt \in {"labelme", "hk"} /\ call_args.file.readable) =>
        LET fmt == call_args.fmt
            two == SelectSeq(call_args.file.entries, LAMBDA e : TwoPoints(fmt, e))
            stored == SelectSeq(two, LAMBDA e : ~Unhashable(EntryName(fmt, e)))
            anns == call_result.store.st.annotations
            recs == call_result.cropper.records
        IN  /\ BoxesAsExpected(fmt, two, [k \in 1..Len(recs) |-> recs[k].bbox])
            /\ BoxesAsExpected(fmt, stored, [k \in 1..Len(anns) |-> anns[k].bbox])

\* the hk scenario's entry and the same entry with its points swapped, in one file
C24_Witness ==
    /\ CallReturned("parse")
    /\ call_args.fmt = "hk"
    /\ call_args.file.readable
    /\ call_args.file.entries = <<HkItem(Node("cat", <<>>), "list", <<Pt(5, 5), Pt(15, 25)>>),
                                  HkItem(Node("cat", <<>>), "list", <<Pt(15, 25), Pt(5, 5)>>)>>
    /\ [k \in 1..2 |-> call_result.store.st.annotations[k].bbox]
           = <<<<5, 5, 10, 20>>, <<5, 5, 10, 20>>>>

\* C25: for yolo and voc, match_files leaves an annotation file in
\* unmatched_annotations only if no image candidate has its base name, and pairs
\* it with an image whenever one has.
C25_SameBaseIsPaired ==
    (Returned /\ format_type \in {"yolo", "voc"}) =>
        \A i \in 1..Len(AnnotationFiles(format_type, annotation_dir)) :
            LET a == AnnotationFiles(format_type, annotation_dir)[i].name
                sameBase == {f \in Range(ImageFiles(image_dir)) : f.base = a.base}
            IN  /\ Contains(unmatched_annotations, a) => sameBase = {}
                /\ sameBase # {} => \E p \in Range(matched_pairs) : p.ann = a /\ p.img \in sameBase

(***************************************************************************)
(* Properties of the quality filter called on its own (SpecFilter).        *)
(***************************************************************************)
\* C26: the quality filter is idempotent: a second call with the same threshold
\* leaves images, annotations (ids and image_ids included) and categories exactly
\* as the first call left them.
C26_FilterIdempotent ==
    CallReturned("filter") => call_result.twice = call_result.once

\* a first call that removed an annotation and an image and renumbered the rest
C26_Witness ==
    /\ CallReturned("filter")
    /\ call_result.twice = call_result.once
    /\ call_result.once.annotations # <<>>
    /\ Len(call_result.once.annotations) < Len(call_args.st.annotations)
    /\ Len(call_result.once.images) < Len(call_args.st.images)
    /\ call_result.once.images[1].file_name # call_args.st.images[1].file_name

\* the rows the threshold keeps, without their two identifiers
KeptRows(anns, threshold) ==
    Contents(SelectSeq(anns, LAMBDA a : a.bbox[3] * a.bbox[4] >= threshold))

\* C27: the quality filter leaves the category list and cat2id as they were, also
\* when every annotation of a category is removed, and every surviving annotation
\* keeps its category_id.
C27_FilterKeepsCategories ==
    CallReturned("filter") =>
        /\ call_result.once.categories = call_args.st.categories
        /\ call_result.once.cat2id = call_args.st.cat2id
        /\ call_result.once.cat_count = call_args.st.cat_count
        /\ Contents(call_result.once.annotations)
               = KeptRows(call_args.st.annotations, call_args.threshold)

\* a category that lost every annotation while another category kept one
C27_Witness ==
    /\ CallReturned("filter")
    /\ call_result.once.annotations # <<>>
    /\ \E c \in Range(call_result.once.categories) :
          /\ \E k \in 1..Len(call_args.st.annotations) :
                call_args.st.annotations[k].category_id = c.id
          /\ \A k \in 1..Len(call_result.once.annotations) :
                call_result.once.annotations[k].category_id # c.id
    /\ call_result.once.categories = call_args.st.categories

(***************************************************************************)
(* Properties of repeated conversions (SpecAgain).                         *)
(***************************************************************************)
\* the state right after reset() and match_files of an invocation
Started ==
    /\ pathway = "convert"
    /\ \/ pc = "pairs" /\ pair_idx = 1
       \/ pc = "raised"
       \/ pc = "done" /\ ret = "False"

\* C28: every convert_to_coco invocation starts from an empty store, whatever the
\* earlier conversions on the same object left: images, categories, annotations,
\* cat2id and the three counters are empty or 0 once the invocation has started,
\* and before the filter every row comes from this invocation's directory with
\* ids counted from 0.
C28_StartsFromEmptyStore ==
    /\ Started => Store = EmptyStore
    /\ (pathway = "convert" /\ pc \in {"pairs", "save"}) =>
           /\ \A i \in 1..Len(images) :
                 images[i].id = i - 1 /\ Contains(image_dir, images[i].file_name)
           /\ \A k \in 1..Len(annotations) : annotations[k].id = k - 1
           /\ \A i \in 1..Len(categories) : categories[i].id = i - 1
           /\ img_count = Len(images)
           /\ ann_count = Len(annotations)
           /\ cat_count = Len(categories)
           /\ DOMAIN cat2id = {categories[i].name : i \in 1..Len(categories)}

\* a second conversion about to be filtered, the first having written a document
\* of at least one image and one annotation
C28_Witness ==
    /\ pathway = "convert"
    /\ pc = "save"
    /\ writes = 1
    /\ images # <<>>
    /\ annotations # <<>>

\* C29: for every box of positive width and height, every image size and every
\* expansion_ratio > 0, the box _apply_expansion_and_bounds returns has width >= 0
\* and height >= 0, boxes that start at or beyond the right or bottom edge of the
\* image included.
C29_ExpandedSizeNonNegative ==
    (/\ CallReturned("expand")
     /\ call_args.bbox[3] > 0
     /\ call_args.bbox[4] > 0
     /\ call_args.expansion_ratio > 0) => (call_result[3] >= 0 /\ call_result[4] >= 0)

(***************************************************************************)
(* Properties of the segmentation pathway (SpecSeg).                       *)
(***************************************************************************)
\* C30: an image for which a polygon file was found and a mask was written is
\* never in image_no_txt_list and is never deleted by the clean-up, whatever the
\* file names (polygon files with an upper-case .TXT extension included).
C30_MaskedImageIsKept ==
    CallReturned("seg") =>
        \A k \in 1..Len(call_result.masks) :
            /\ ~Contains(call_result.image_no_txt_list, call_result.masks[k].img)
            /\ call_result.masks[k].img \notin call_result.deleted.img

====
